---- MODULE Spec2Model ----
(***************************************************************************)
(* Model of the message system: the routing engine (routing/router.py),    *)
(* the conversation store (conversation/manager.py) over the storage       *)
(* contract (core/interfaces.py) and the interceptor pipeline              *)
(* (interceptor/message_interceptor.py).                                   *)
(***************************************************************************)
EXTENDS Integers, Sequences, FiniteSets, TLC

(***************************************************************************)
(* Bounds of the model.                                                    *)
(***************************************************************************)
MaxCustomRules == 2
MaxConvs == 2
MaxCalls == 2
MaxProcessors == 1
MaxTicks == 3
MaxFaults == 1
MaxOps == 4
MaxClock == 2
MaxTasks == 3
MaxManagerTasks == 2
MaxLimit == 2
MaxLoops == 2
MaxQueued == 2
MaxRacers == 2
MaxRegistered == 2

(***************************************************************************)
(* Program constants.                                                      *)
(***************************************************************************)
IgnoreSystemPriority == 100
ExistingConversationPriority == 90
DefaultPriority == 50
TimeoutMinutes == 30

\* Minutes the clock advances in one step of Tick.
TickMinutes == TimeoutMinutes \div 2

\* Python's None, for optional conversation ids.
None == 0

ConvIds == 1..MaxConvs
Senders == {"u1"}
AgentIds == {"a1"}
NoAgent == "no_agent"

\* Message contents: empty, blank, a greeting, a text holding the keyword.
Contents == {"", " ", "hello", "order 7"}

\* Priorities a caller registers custom rules with.
Priorities == {DefaultPriority, IgnoreSystemPriority, IgnoreSystemPriority + 1}

VARIABLES
    rules,                \* MessageRouter.rules
    rule_count,           \* number of add_rule calls so far (insertion stamp)
    contexts,             \* storage: conversation:<id>:context
    active_conversations, \* storage: active_conversations:<sender>
    history,              \* storage: conversation:<id>:messages
    last_activity,        \* storage: conversation:<id>:last_activity
    next_conv,            \* next fresh conversation id (uuid4)
    now,                  \* datetime.now(), in minutes
    ticks,                \* number of clock steps taken
    routed,               \* the last direct call of route and what it returned
    default_agent,        \* MessageInterceptor.default_agent
    agents,               \* MessageInterceptor.agents (the registered ids)
    pre_processors,       \* MessageInterceptor._pre_processors
    post_processors,      \* MessageInterceptor._post_processors
    calls,                \* number of intercept calls started
    pc,                   \* where the current intercept call stands
    message,              \* intercept: message
    idx,                  \* intercept: position in the processor loop
    routing_decision,     \* intercept: routing_decision
    conversation,         \* intercept: conversation
    agent,                \* intercept: agent
    response,             \* intercept: response
    outcome,              \* how the call ended: returned or raised, and what
    status_log,           \* the statuses the message has had in this call
    store_ops,            \* the Conversation Store operations of this call
    fault_site,           \* where the fault of this call was raised, if any
    faults,               \* number of faults raised by collaborators so far
    store_before          \* the store when the current intercept call began

router_vars == <<rules, rule_count>>
store_vars == <<contexts, active_conversations, history, last_activity, next_conv>>
config_vars == <<default_agent, agents, pre_processors, post_processors>>
call_vars == <<calls, pc, message, idx, routing_decision, conversation, agent,
               response, outcome, status_log, store_ops, fault_site, faults,
               store_before>>
system_vars == <<rules, rule_count, contexts, active_conversations, history,
          last_activity, next_conv, now, ticks, routed,
          default_agent, agents, pre_processors, post_processors,
          calls, pc, message, idx, routing_decision, conversation, agent,
          response, outcome, status_log, store_ops, fault_site, faults,
          store_before>>

----------------------------------------------------------------------------
(***************************************************************************)
(* core/interfaces.py, core/message.py: value objects                      *)
(***************************************************************************)

RoutingDecision(should_process, conversation_id, create_new_conversation, reason, agent_id) ==
    [should_process |-> should_process,
     conversation_id |-> conversation_id,
     create_new_conversation |-> create_new_conversation,
     reason |-> reason,
     agent_id |-> agent_id]

\* A message as its producer builds it: status RECEIVED, no conversation.
Message(id, sender_id, content, is_system, reply_to_conversation, start_conversation) ==
    [id |-> id, sender_id |-> sender_id, content |-> content,
     is_system |-> is_system,
     reply_to_conversation |-> reply_to_conversation,
     start_conversation |-> start_conversation,
     status |-> "RECEIVED", conversation_id |-> None]

----------------------------------------------------------------------------
(***************************************************************************)
(* routing/router.py                                                       *)
(***************************************************************************)

RoutingRule(name, condition, action, priority) ==
    [name |-> name, condition |-> condition, action |-> action, priority |-> priority]

\* Reasons are a text plus, for a routing error, the text of the error.
Reason(text) == [text |-> text, error |-> ""]
RoutingErrorReason(error) == [text |-> "Routing error", error |-> error]

\* Rule actions: what the callable does when it is called with a message.
DeclineSystem == [kind |-> "decline_system", conversation_id |-> None,
                  create_new |-> FALSE, agent_id |-> NoAgent]
ReplyTarget == [kind |-> "reply_target", conversation_id |-> None,
                create_new |-> FALSE, agent_id |-> NoAgent]
Decide(kind, conversation_id, create_new, agent_id) ==
    [kind |-> kind, conversation_id |-> conversation_id,
     create_new |-> create_new, agent_id |-> agent_id]
ReturnsNone == [kind |-> "returns_none", conversation_id |-> None,
                create_new |-> FALSE, agent_id |-> NoAgent]
Raises == [kind |-> "raises", conversation_id |-> None,
           create_new |-> FALSE, agent_id |-> NoAgent]

\* Variant: the built-in rule registered at the bottom of the priority range.
IgnoreSystemRuleLowPriority ==
    RoutingRule("ignore_system", "is_system", DeclineSystem, 0 * IgnoreSystemPriority)

\* Rule: Ignore system messages
IgnoreSystemRule ==
    RoutingRule("ignore_system", "is_system", DeclineSystem, IgnoreSystemPriority)

\* Rule: Route to existing conversation if reply
ExistingConversationRule ==
    RoutingRule("existing_conversation", "has_reply", ReplyTarget, ExistingConversationPriority)

\* Variant: an unstable sort, the new rule goes before the rules of its priority.
RECURSIVE InsertBeforeEqualPriority(_, _)
InsertBeforeEqualPriority(s, r) ==
    IF s = <<>> THEN <<r>>
    ELSE IF Head(s).priority > r.priority
         THEN <<Head(s)>> \o InsertBeforeEqualPriority(Tail(s), r)
         ELSE <<r>> \o s

\* Position of rule r in the sorted list s: list.sort is stable, so r, which
\* was appended last, goes after every rule whose priority is not lower.
RECURSIVE InsertByPriority(_, _)
InsertByPriority(s, r) ==
    IF s = <<>> THEN <<r>>
    ELSE IF Head(s).priority >= r.priority
         THEN <<Head(s)>> \o InsertByPriority(Tail(s), r)
         ELSE <<r>> \o s

\* rules.sort(key=lambda r: r.priority, reverse=True)
RECURSIVE SortByPriority(_)
SortByPriority(s) ==
    IF s = <<>> THEN <<>>
    ELSE InsertByPriority(SortByPriority(SubSeq(s, 1, Len(s) - 1)), s[Len(s)])

\* The list after add_rule(rule); the rule is stamped with its insertion number.
AddedRule(rs, rule, stamp) ==
    SortByPriority(Append(rs,
        [name |-> rule.name, condition |-> rule.condition, action |-> rule.action,
         priority |-> rule.priority, seq |-> stamp]))

\* The rule list after __init__: the two built-in rules, added in this order.
InitialRules == AddedRule(AddedRule(<<>>, IgnoreSystemRule, 1), ExistingConversationRule, 2)

\* keyword.lower() in msg.content.lower(), for the keyword "order"
ContainsKeyword(content) == content \in {"order 7"}

\* compiled_pattern.search(msg.content), for the pattern "^hel"
MatchesPattern(content) == content \in {"hello"}

\* rule.condition(message): "true", "false" or "raise"
Condition(rule, m) ==
    CASE rule.condition = "is_system" -> IF m.is_system THEN "true" ELSE "false"
      [] rule.condition = "has_reply" ->
            IF m.reply_to_conversation # None THEN "true" ELSE "false"
      [] rule.condition = "always" -> "true"
      [] rule.condition = "keyword" ->
            IF ContainsKeyword(m.content) THEN "true" ELSE "false"
      [] rule.condition = "pattern" ->
            IF MatchesPattern(m.content) THEN "true" ELSE "false"
      [] rule.condition = "raises" -> "raise"

NoDecision == RoutingDecision(FALSE, None, FALSE, Reason(""), NoAgent)

\* rule.action(message): a decision, None or an exception
Action(rule, m) ==
    LET a == rule.action IN
    CASE a.kind = "decline_system" ->
            [kind |-> "decision",
             decision |-> RoutingDecision(FALSE, None, FALSE,
                                          Reason("System message ignored"), NoAgent)]
      [] a.kind = "reply_target" ->
            [kind |-> "decision",
             decision |-> RoutingDecision(TRUE, m.reply_to_conversation, FALSE,
                                          Reason("Continuing existing conversation"), NoAgent)]
      [] a.kind \in {"keyword_match", "pattern_match", "custom"} ->
            [kind |-> "decision",
             decision |-> RoutingDecision(TRUE, a.conversation_id, a.create_new,
                                          Reason(a.kind), a.agent_id)]
      [] a.kind = "returns_none" -> [kind |-> "none", decision |-> NoDecision]
      [] a.kind = "raises" -> [kind |-> "raise", decision |-> NoDecision]

\* Variant: a rule whose action returns None ends the loop.
RECURSIVE EvaluateRulesStopAtNone(_, _, _)
EvaluateRulesStopAtNone(rs, i, m) ==
    IF i > Len(rs)
    THEN [outcome |-> "no_rule", decision |-> NoDecision, fired |-> 0,
          error |-> "", evaluated |-> <<>>]
    ELSE LET rule == rs[i]
             c == Condition(rule, m)
             a == Action(rule, m)
             rest == EvaluateRulesStopAtNone(rs, i + 1, m)
         IN  IF c = "raise"
             THEN [outcome |-> "error", decision |-> NoDecision, fired |-> 0,
                   error |-> "condition failed", evaluated |-> <<rule.seq>>]
             ELSE IF c = "false"
             THEN [rest EXCEPT !.evaluated = <<rule.seq>> \o @]
             ELSE IF a.kind = "raise"
             THEN [outcome |-> "error", decision |-> NoDecision, fired |-> 0,
                   error |-> "action failed", evaluated |-> <<rule.seq>>]
             ELSE IF a.kind = "decision"
             THEN [outcome |-> "decision", decision |-> a.decision, fired |-> rule.seq,
                   error |-> "", evaluated |-> <<rule.seq>>]
             ELSE [outcome |-> "no_rule", decision |-> NoDecision, fired |-> 0,
                   error |-> "", evaluated |-> <<rule.seq>>]

\* The loop over self.rules of route, from rule i on. evaluated lists the
\* stamps of the rules whose condition was called, in call order; fired is the
\* stamp of the rule whose decision is returned (0 when none).
RECURSIVE EvaluateRules(_, _, _)
EvaluateRules(rs, i, m) ==
    IF i > Len(rs)
    THEN [outcome |-> "no_rule", decision |-> NoDecision, fired |-> 0,
          error |-> "", evaluated |-> <<>>]
    ELSE LET rule == rs[i]
             c == Condition(rule, m)
             a == Action(rule, m)
             rest == EvaluateRules(rs, i + 1, m)
         IN  IF c = "raise"
             THEN [outcome |-> "error", decision |-> NoDecision, fired |-> 0,
                   error |-> "condition failed", evaluated |-> <<rule.seq>>]
             ELSE IF c = "false"
             THEN [rest EXCEPT !.evaluated = <<rule.seq>> \o @]
             ELSE IF a.kind = "raise"
             THEN [outcome |-> "error", decision |-> NoDecision, fired |-> 0,
                   error |-> "action failed", evaluated |-> <<rule.seq>>]
             ELSE IF a.kind = "decision"
             THEN [outcome |-> "decision", decision |-> a.decision, fired |-> rule.seq,
                   error |-> "", evaluated |-> <<rule.seq>>]
             ELSE [rest EXCEPT !.evaluated = <<rule.seq>> \o @]

\* storage.get_list(key, 0, -1) on active_conversations:<sender>, then [-1]
find_active_conversation(sender_id) ==
    LET conversations == active_conversations[sender_id] IN
    IF conversations # <<>> THEN conversations[Len(conversations)] ELSE None

\* Variant: a conversation with a recorded activity never times out.
is_conversation_activeNoTimeout(conversation_id) ==
    conversation_id \in DOMAIN last_activity

is_conversation_active(conversation_id) ==
    IF conversation_id \in DOMAIN last_activity
    THEN now - last_activity[conversation_id] < TimeoutMinutes
    ELSE FALSE

\* re.search of the three starter patterns in content.lower()
MatchesStarter(content) == content \in {"hello"}

\* len(content.strip())
StrippedLen(content) ==
    CASE content = "" -> 0
      [] content = " " -> 0
      [] content = "hello" -> 5
      [] content = "order 7" -> 7

\* Variant: without the final fallback on non-blank content.
should_start_conversationStartersOnly(m) ==
    MatchesStarter(m.content) \/ m.start_conversation

should_start_conversation(m) ==
    IF MatchesStarter(m.content) THEN TRUE
    ELSE IF m.start_conversation THEN TRUE
    ELSE StrippedLen(m.content) > 0

\* What the storage backend does on the reads of route: "none" (both reads
\* answer), "find" (get_list raises), "activity" (get raises).
StorageFaults == {"none", "find", "activity"}

\* The body of the try block of route.
route_try(rs, m, fault) ==
    IF fault = "find"
    THEN [outcome |-> "error", decision |-> NoDecision, fired |-> 0,
          error |-> "storage failed", evaluated |-> <<>>]
    ELSE
    LET existing_conversation_id == find_active_conversation(m.sender_id)
        ev == EvaluateRules(rs, 1, m)
        start == IF should_start_conversation(m)
                 THEN RoutingDecision(TRUE, None, TRUE,
                                      Reason("Starting new conversation"), NoAgent)
                 ELSE RoutingDecision(FALSE, None, FALSE,
                                      Reason("No routing rule matched"), NoAgent)
    IN  IF ev.outcome # "no_rule" THEN ev
        ELSE IF existing_conversation_id # None /\ fault = "activity"
        THEN [ev EXCEPT !.outcome = "error", !.error = "storage failed"]
        ELSE IF existing_conversation_id # None
                /\ is_conversation_active(existing_conversation_id)
        THEN [ev EXCEPT !.outcome = "default",
                        !.decision = RoutingDecision(TRUE, existing_conversation_id, FALSE,
                                         Reason("Continuing active conversation"), NoAgent)]
        ELSE [ev EXCEPT !.outcome = "default", !.decision = start]

\* Variant: no except clause, the error leaves route.
RoutingErrorRaised(r) ==
    [outcome |-> IF r.outcome = "error" THEN "raised" ELSE "returned",
     path |-> r.outcome, decision |-> r.decision,
     fired |-> r.fired, error |-> r.error, evaluated |-> r.evaluated]

\* except Exception as e: return RoutingDecision(should_process=False, reason=...)
\* path tells how the decision was reached: "decision" (a rule fired),
\* "default" (the default logic) or "error" (the except clause).
RoutingErrorHandler(r) ==
    [outcome |-> "returned", path |-> r.outcome,
     decision |-> IF r.outcome = "error"
                  THEN RoutingDecision(FALSE, None, FALSE,
                                       RoutingErrorReason(r.error), NoAgent)
                  ELSE r.decision,
     fired |-> r.fired, error |-> r.error, evaluated |-> r.evaluated]

\* route(message): outcome is "returned" or "raised".
route(rs, m, fault) == RoutingErrorHandler(route_try(rs, m, fault))

----------------------------------------------------------------------------
(***************************************************************************)
(* conversation/manager.py over the storage contract.  A storage write may *)
(* fail: fault_at = k makes the k-th storage call of the operation raise,  *)
(* the calls before it having taken effect (0: no call fails).             *)
(***************************************************************************)

Store == [contexts |-> contexts, active_conversations |-> active_conversations,
          history |-> history, last_activity |-> last_activity,
          next_conv |-> next_conv]

\* f with key k bound to v, k being in the domain of f or not.
Put(f, k, v) == [x \in DOMAIN f \cup {k} |-> IF x = k THEN v ELSE f[x]]

\* _save_conversation_context
save_conversation_context(st, context) ==
    [st EXCEPT !.contexts = Put(@, context.conversation_id, context)]

\* _save_message: the entry keeps the message's id and its status when saved
save_message(st, conversation_id, m) ==
    LET entry == [id |-> m.id, status |-> m.status]
        old == IF conversation_id \in DOMAIN st.history
               THEN st.history[conversation_id] ELSE <<>>
    IN  [st EXCEPT !.history = Put(@, conversation_id, Append(old, entry))]

\* _update_last_activity
update_last_activity(st, conversation_id, time) ==
    [st EXCEPT !.last_activity = Put(@, conversation_id, time)]

\* Variant: the context is built and returned, and nothing is stored.
create_conversationUnsaved(st, m, agent_id, time, fault_at) ==
    [store |-> [st EXCEPT !.next_conv = @ + 1],
     raised |-> fault_at # 0,
     context |-> [conversation_id |-> st.next_conv,
                  participant_ids |-> <<m.sender_id, "bot">>,
                  created_at |-> time, updated_at |-> time,
                  is_active |-> TRUE, agent_id |-> agent_id]]

\* create_conversation(initial_message, metadata): the store afterwards, the
\* new context and whether a storage call raised.
create_conversation(st, m, agent_id, time, fault_at) ==
    LET conversation_id == st.next_conv
        context == [conversation_id |-> conversation_id,
                    participant_ids |-> <<m.sender_id, "bot">>,
                    created_at |-> time, updated_at |-> time,
                    is_active |-> TRUE, agent_id |-> agent_id]
        s0 == [st EXCEPT !.next_conv = @ + 1]
        s1 == save_conversation_context(s0, context)
        s2 == [s1 EXCEPT !.active_conversations[m.sender_id] = Append(@, conversation_id)]
        s3 == save_message(s2, conversation_id, m)
        s4 == update_last_activity(s3, conversation_id, time)
    IN  IF fault_at = 1 THEN [store |-> s0, raised |-> TRUE, context |-> context]
        ELSE IF fault_at = 2 THEN [store |-> s1, raised |-> TRUE, context |-> context]
        ELSE IF fault_at = 3 THEN [store |-> s2, raised |-> TRUE, context |-> context]
        ELSE IF fault_at = 4 THEN [store |-> s3, raised |-> TRUE, context |-> context]
        ELSE [store |-> s4, raised |-> FALSE, context |-> context]

\* The local variable conversation before a context is assigned to it.
NoContext == [conversation_id |-> None, participant_ids |-> <<>>,
              created_at |-> 0, updated_at |-> 0,
              is_active |-> FALSE, agent_id |-> NoAgent]

\* get_conversation(conversation_id): found tells whether a context is stored
get_conversation(st, conversation_id) ==
    IF conversation_id \in DOMAIN st.contexts
    THEN [found |-> TRUE, context |-> st.contexts[conversation_id]]
    ELSE [found |-> FALSE, context |-> NoContext]

\* update_conversation(conversation_id, message); fault_at counts its four
\* storage calls (the read, the context write, the append, the activity write)
update_conversation(st, conversation_id, m, time, fault_at) ==
    LET got == get_conversation(st, conversation_id)
        context == [got.context EXCEPT !.updated_at = time]
        s1 == save_conversation_context(st, context)
        s2 == save_message(s1, conversation_id, m)
        s3 == update_last_activity(s2, conversation_id, time)
    IN  IF fault_at = 1 \/ ~got.found THEN [store |-> st, raised |-> TRUE]
        ELSE IF fault_at = 2 THEN [store |-> st, raised |-> TRUE]
        ELSE IF fault_at = 3 THEN [store |-> s1, raised |-> TRUE]
        ELSE IF fault_at = 4 THEN [store |-> s2, raised |-> TRUE]
        ELSE [store |-> s3, raised |-> FALSE]

\* The storage variables take the values of the store record st.
StoreBecomes(st) ==
    /\ contexts' = st.contexts
    /\ active_conversations' = st.active_conversations
    /\ history' = st.history
    /\ last_activity' = st.last_activity
    /\ next_conv' = st.next_conv

----------------------------------------------------------------------------
(***************************************************************************)
(* storage/backends.py: LocalFileStorage.  A key, a pattern and a file     *)
(* name are sequences of tokens; ":" and "_" are tokens of their own, so   *)
(* that the string replacements of the code act on them as on characters.  *)
(***************************************************************************)

VARIABLES
    primary,              \* a LocalFileStorage: its directory and _ttl_registry
    secondary,            \* the second backend of a HybridStorage
    sync_enabled,         \* HybridStorage.sync_enabled
    clock,                \* datetime.now(), in seconds
    op,                   \* the last storage call and what it returned
    ops,                  \* number of storage calls so far
    last_write,           \* per key, the last set, delete or append on that key
    lock,                 \* LocalFileStorage._lock: the task holding it, or 0
    tasks,                \* the append_to_list calls in flight
    migrated              \* the secondary after the first complete migration

backend_vars == <<primary, secondary, sync_enabled, clock, op, ops, last_write,
                  lock, tasks, migrated>>

VARIABLES
    manager_calls,        \* the update_conversation and close_conversation calls in flight
    closed,               \* the conversations whose close_conversation has returned
    fetched               \* the last get_conversation_history call and its result

manager_vars == <<manager_calls, closed, fetched>>

VARIABLES
    processing,           \* MessageInterceptor.processing
    message_queue,        \* MessageInterceptor.message_queue
    loops,                \* the start_processing coroutines and where each stands
    last_call,            \* the last of the start_processing and stop_processing calls
    queued,               \* number of queue_message calls so far
    intercepted           \* the messages passed to intercept by the loops, in order

loop_vars == <<processing, message_queue, loops, last_call, queued, intercepted>>

VARIABLES
    racers                \* the intercept calls in flight at once, and where each stands

race_vars == <<racers>>

VARIABLES
    run,                  \* one intercept call: its locals and the steps it has taken
    trip                  \* a value, its serialized form and the value read back

trace_vars == <<run, trip>>
runtime_vars == <<manager_vars, loop_vars, race_vars, trace_vars>>
other_vars == <<backend_vars, runtime_vars>>
vars == <<system_vars, backend_vars, runtime_vars>>

\* The keys callers use: one plain key and two keys that differ only in ":"
\* against "_".
Keys == {<<"k">>, <<"a", ":", "b">>, <<"a", "_", "b">>}
Values == {"v1", "v2"}
\* What get returns for a key it does not find (Python's None).
Absent == "None"
\* The patterns callers pass to list_keys.
Patterns == {<<"*">>, <<"a", ":", "*">>}
\* Time-to-live arguments, in seconds; None stands for no ttl.
Ttls == {None, 1}

\* key.replace(":", "_")
ReplaceColons(key) == [i \in 1..Len(key) |-> IF key[i] = ":" THEN "_" ELSE key[i]]

\* _get_file_path(key): the name of the file, without ".json"
get_file_path(key) == ReplaceColons(key)

\* _get_list_file_path(key)
get_list_file_path(key) == ReplaceColons(key) \o <<"_", "list">>

\* A file as set writes it and as append_to_list writes it.
ScalarFile(value) == [kind |-> "scalar", value |-> value, values |-> <<>>]
ListFile(values) == [kind |-> "list", value |-> Absent, values |-> values]

\* A backend over an empty directory.
EmptyBackend == [files |-> <<>>, ttl_registry |-> <<>>]

\* f without key k
Remove(f, k) == [x \in DOMAIN f \ {k} |-> f[x]]

\* _is_expired(key) at time t
is_expired(b, key, t) ==
    IF key \in DOMAIN b.ttl_registry THEN t > b.ttl_registry[key] ELSE FALSE

\* delete(key): both files and the registry entry
delete(b, key) ==
    [files |-> Remove(Remove(b.files, get_file_path(key)), get_list_file_path(key)),
     ttl_registry |-> Remove(b.ttl_registry, key)]

\* get(key) at time t: the value returned and the backend afterwards
get(b, key, t) ==
    IF is_expired(b, key, t)
    THEN [value |-> Absent, backend |-> delete(b, key)]
    ELSE IF get_file_path(key) \notin DOMAIN b.files
    THEN [value |-> Absent, backend |-> b]
    ELSE [value |-> b.files[get_file_path(key)].value, backend |-> b]

\* set(key, value, ttl) at time t
set(b, key, value, ttl, t) ==
    [files |-> Put(b.files, get_file_path(key), ScalarFile(value)),
     ttl_registry |-> IF ttl # None
                      THEN Put(b.ttl_registry, key, t + ttl)
                      ELSE b.ttl_registry]

\* exists(key) at time t
exists(b, key, t) ==
    IF is_expired(b, key, t)
    THEN [value |-> FALSE, backend |-> delete(b, key)]
    ELSE [value |-> \/ get_file_path(key) \in DOMAIN b.files
                    \/ get_list_file_path(key) \in DOMAIN b.files,
          backend |-> b]

\* get_list(key) with the default range 0, -1
get_list(b, key) ==
    IF get_list_file_path(key) \notin DOMAIN b.files
    THEN <<>>
    ELSE b.files[get_list_file_path(key)].values

\* The body of append_to_list under the lock: read the list, write it back.
append_to_list(b, key, value) ==
    [b EXCEPT !.files = Put(@, get_list_file_path(key),
                            ListFile(Append(get_list(b, key), value)))]

\* pathlib glob on one file name: "*" matches any run of characters.
RECURSIVE Match(_, _)
Match(pattern, name) ==
    IF pattern = <<>> THEN name = <<>>
    ELSE IF Head(pattern) = "*"
    THEN Match(Tail(pattern), name) \/ (name # <<>> /\ Match(pattern, Tail(name)))
    ELSE name # <<>> /\ Head(name) = Head(pattern) /\ Match(Tail(pattern), Tail(name))

\* The members of a set of file names in the order the directory yields
\* them; no caller below depends on which order that is.
RECURSIVE DirectoryOrder(_)
DirectoryOrder(S) ==
    IF S = {} THEN <<>>
    ELSE LET x == CHOOSE y \in S : TRUE IN <<x>> \o DirectoryOrder(S \ {x})

\* list(self.base_path.glob(pattern + ".json"))
Glob(b, pattern) == DirectoryOrder({name \in DOMAIN b.files : Match(pattern, name)})

\* stem.replace("_list", "")
RECURSIVE RemoveListSuffix(_)
RemoveListSuffix(stem) ==
    IF stem = <<>> THEN <<>>
    ELSE IF Len(stem) >= 2 /\ stem[1] = "_" /\ stem[2] = "list"
    THEN RemoveListSuffix(SubSeq(stem, 3, Len(stem)))
    ELSE <<Head(stem)>> \o RemoveListSuffix(Tail(stem))

\* .replace("_", ":")
ReplaceUnderscores(stem) ==
    [i \in 1..Len(stem) |-> IF stem[i] = "_" THEN ":" ELSE stem[i]]

\* list_keys(pattern) at time t: the list returned
list_keys(b, pattern, t) ==
    LET glob_pattern == ReplaceColons(pattern)
        matching_files == Glob(b, glob_pattern)
                          \o Glob(b, glob_pattern \o <<"_", "list">>)
        keys == [i \in 1..Len(matching_files) |->
                    ReplaceUnderscores(RemoveListSuffix(matching_files[i]))]
    IN  SelectSeq(keys, LAMBDA key : ~is_expired(b, key, t))

----------------------------------------------------------------------------
(***************************************************************************)
(* storage/backends.py: HybridStorage over two backends p (primary) and s  *)
(* (secondary).  Each operator gives the two backends after the call.      *)
(***************************************************************************)

\* Variant: the value found in the secondary is not written back.
hybrid_getNoFill(p, s, sync, key, t) ==
    LET first == get(p, key, t)
        second == get(s, key, t)
    IN  IF first.value # Absent
        THEN [value |-> first.value, primary |-> first.backend, secondary |-> s]
        ELSE [value |-> second.value, primary |-> first.backend,
              secondary |-> second.backend]

\* HybridStorage.get(key)
hybrid_get(p, s, sync, key, t) ==
    LET first == get(p, key, t)
        second == get(s, key, t)
    IN  IF first.value # Absent
        THEN [value |-> first.value, primary |-> first.backend, secondary |-> s]
        ELSE [value |-> second.value,
              primary |-> IF second.value # Absent /\ sync
                          THEN set(first.backend, key, second.value, None, t)
                          ELSE first.backend,
              secondary |-> second.backend]

\* Variant: the secondary is written whether sync is enabled or not.
\* HybridStorage.exists: the primary's answer, else the secondary's.
hybrid_exists(p, s, key, t) ==
    LET first == exists(p, key, t)
        second == exists(s, key, t)
    IN  IF first.value
        THEN [value |-> TRUE, primary |-> first.backend, secondary |-> s]
        ELSE [value |-> second.value, primary |-> first.backend,
              secondary |-> second.backend]

hybrid_setAlwaysBoth(p, s, sync, key, value, ttl, t) ==
    [primary |-> set(p, key, value, ttl, t),
     secondary |-> set(s, key, value, ttl, t)]

\* HybridStorage.set(key, value, ttl)
hybrid_set(p, s, sync, key, value, ttl, t) ==
    [primary |-> set(p, key, value, ttl, t),
     secondary |-> IF sync THEN set(s, key, value, ttl, t) ELSE s]

\* HybridStorage.append_to_list(key, value)
hybrid_append_to_list(p, s, sync, key, value) ==
    [primary |-> append_to_list(p, key, value),
     secondary |-> IF sync THEN append_to_list(s, key, value) ELSE s]

\* HybridStorage.delete(key)
hybrid_delete(p, s, key) ==
    [primary |-> delete(p, key), secondary |-> delete(s, key)]

\* The inner loop of migrate_to_secondary: one append per entry.  m holds
\* the two backends, the number of writes made to the secondary and whether
\* a write has raised; write number fault_at raises (0: none does).
RECURSIVE migrate_list(_, _, _, _)
migrate_list(m, key, list_values, fault_at) ==
    IF list_values = <<>> \/ m.raised THEN m
    ELSE migrate_list(
            IF m.writes + 1 = fault_at
            THEN [m EXCEPT !.raised = TRUE]
            ELSE [m EXCEPT !.secondary = append_to_list(@, key, Head(list_values)),
                           !.writes = @ + 1],
            key, Tail(list_values), fault_at)

\* The loop of migrate_to_secondary over the keys of the primary.
RECURSIVE migrate_keys(_, _, _, _)
migrate_keys(m, key_list, fault_at, t) ==
    IF key_list = <<>> \/ m.raised THEN m
    ELSE LET key == Head(key_list)
             list_values == get_list(m.primary, key)
             got == get(m.primary, key, t)
             copied ==
                IF list_values # <<>>
                THEN migrate_list(m, key, list_values, fault_at)
                ELSE IF got.value = Absent
                THEN [m EXCEPT !.primary = got.backend]
                ELSE IF m.writes + 1 = fault_at
                THEN [m EXCEPT !.primary = got.backend, !.raised = TRUE]
                ELSE [m EXCEPT !.primary = got.backend,
                               !.secondary = set(@, key, got.value, None, t),
                               !.writes = @ + 1]
         IN  migrate_keys(copied, Tail(key_list), fault_at, t)

\* migrate_to_secondary() at time t
migrate_to_secondary(p, s, fault_at, t) ==
    migrate_keys([primary |-> p, secondary |-> s, writes |-> 0, raised |-> FALSE],
                 list_keys(p, <<"*">>, t), fault_at, t)

\* The record of a storage call: its name and arguments, what it returned
\* (a value, a boolean or a list of keys), whether it raised, and the two
\* backends before it.
NoOp == [name |-> "none", key |-> <<>>, pattern |-> <<>>, value |-> Absent,
         flag |-> FALSE, listed |-> <<>>, raised |-> FALSE,
         before |-> [primary |-> EmptyBackend, secondary |-> EmptyBackend]]

\* The last write of a caller on a key: a set, a delete or an append.
NoWrite == [kind |-> "none", value |-> Absent, time |-> 0, ttl |-> None]

\* An append_to_list call that has not been made.
IdleTask == [pc |-> "idle", key |-> <<>>, value |-> Absent, existing_list |-> <<>>]

\* No migration has run since the backends were last written.
NotMigrated == [runs |-> 0, reference |-> EmptyBackend]

----------------------------------------------------------------------------
(***************************************************************************)
(* conversation/manager.py: update_conversation and close_conversation as  *)
(* coroutines.  A call gives up control at each storage call it awaits, so *)
(* the storage calls of several calls in flight interleave.                *)
(***************************************************************************)

ManagerTasks == 1..MaxManagerTasks

\* Python's values[start:stop] for any integers start and stop.
PySlice(values, start, stop) ==
    LET n == Len(values)
        Clamp(i) == IF i < 0 THEN (IF n + i < 0 THEN 0 ELSE n + i)
                    ELSE (IF i > n THEN n ELSE i)
    IN  SubSeq(values, Clamp(start) + 1, Clamp(stop))

\* get_list(key, start, end) on the values of a list record
list_range(values, start, end) ==
    IF end = -1 THEN PySlice(values, start, Len(values))
    ELSE PySlice(values, start, end + 1)

\* get_conversation_history(conversation_id, limit)
get_conversation_history(st, conversation_id, limit) ==
    LET values == IF conversation_id \in DOMAIN st.history
                  THEN st.history[conversation_id] ELSE <<>>
    IN  list_range(values, -limit, -1)

----------------------------------------------------------------------------
(***************************************************************************)
(* The state after construction.                                           *)
(***************************************************************************)

\* The messages a producer hands to route or intercept.
Messages(id) ==
    {Message(id, s, c, sys, r, st) :
        s \in Senders, c \in {"", "hello", "order 7"}, sys \in BOOLEAN,
        r \in {None, 1}, st \in {FALSE}}
    \cup {Message(id, s, " ", FALSE, None, st) : s \in Senders, st \in BOOLEAN}

\* The messages handed to intercept: a system message, a reply to
\* conversation 1, and plain messages of every content.
InterceptMessages(id) ==
    {m \in Messages(id) :
        /\ m.is_system => m.content = "hello" /\ m.reply_to_conversation = None
        /\ m.reply_to_conversation # None => m.content = "hello"}

NoMessage == Message(0, "u1", "", FALSE, None, FALSE)
NoResponse == [id |-> 0, status |-> "RECEIVED"]
\* The store of a fresh backend.
EmptyStore == [contexts |-> <<>>, active_conversations |-> [s \in Senders |-> <<>>],
               history |-> <<>>, last_activity |-> <<>>, next_conv |-> 1]
NotRouted == [called |-> FALSE, message |-> NoMessage, fault |-> "none",
              result |-> RoutingErrorHandler(EvaluateRules(<<>>, 1, NoMessage)),
              store_after |-> EmptyStore]

\* A caller slot that has made no call.
IdleCall == [pc |-> "idle", name |-> "none", conversation_id |-> None,
             message |-> NoMessage, context |-> NoContext, participant |-> 1]

\* No get_conversation_history call has been made.
NotFetched == [called |-> FALSE, conversation_id |-> None, limit |-> 0,
               messages |-> <<>>, values |-> <<>>]

\* A start_processing coroutine that has not been created.
NotStarted == [pc |-> "idle", message |-> None, ended |-> "none", logged |-> FALSE]

\* An intercept call that has not been made.
NotCalled == [pc |-> "idle", message |-> NoMessage, routing_decision |-> NoDecision,
              existing |-> None, conversation_id |-> None]

\* The locals of an intercept call that has not been made: a message and a
\* response carry the tags the processors have put on them.
NotRun == [pc |-> "idle", message |-> <<>>, responded |-> FALSE, response |-> <<>>,
           idx |-> 1, status |-> "RECEIVED", steps |-> <<>>]

\* Nothing has been serialized.
NoTrip == [kind |-> "none"]

Init ==
    /\ rules = InitialRules
    /\ rule_count = 2
    /\ contexts = EmptyStore.contexts
    /\ active_conversations = EmptyStore.active_conversations
    /\ history = EmptyStore.history
    /\ last_activity = EmptyStore.last_activity
    /\ next_conv = EmptyStore.next_conv
    /\ now = 0
    /\ ticks = 0
    /\ routed = NotRouted
    /\ default_agent \in {NoAgent, "default"}
    /\ agents = {}
    /\ pre_processors = <<>>
    /\ post_processors = <<>>
    /\ calls = 0
    /\ pc = "idle"
    /\ message = NoMessage
    /\ idx = 1
    /\ routing_decision = NoDecision
    /\ conversation = NoContext
    /\ agent = NoAgent
    /\ response = NoResponse
    /\ outcome = "none"
    /\ status_log = <<>>
    /\ store_ops = <<>>
    /\ fault_site = "none"
    /\ faults = 0
    /\ store_before = EmptyStore
    /\ primary = EmptyBackend
    /\ secondary = EmptyBackend
    /\ sync_enabled = FALSE
    /\ clock = 0
    /\ op = NoOp
    /\ ops = 0
    /\ last_write = [key \in Keys |-> NoWrite]
    /\ lock = 0
    /\ tasks = [t \in 1..MaxTasks |-> IdleTask]
    /\ migrated = NotMigrated
    /\ manager_calls = [t \in 1..MaxManagerTasks |-> IdleCall]
    /\ closed = {}
    /\ fetched = NotFetched
    /\ processing = FALSE
    /\ message_queue = <<>>
    /\ loops = [l \in 1..MaxLoops |-> NotStarted]
    /\ last_call = "none"
    /\ queued = 0
    /\ intercepted = <<>>
    /\ racers = [t \in 1..MaxRacers |-> NotCalled]
    /\ run = NotRun
    /\ trip = NoTrip

----------------------------------------------------------------------------
(***************************************************************************)
(* Routing engine: registrations and direct calls of route.                *)
(***************************************************************************)

\* add_rule(rule)
add_rule(rule) ==
    /\ Len(rules) < 2 + MaxCustomRules
    /\ rules' = AddedRule(rules, rule, rule_count + 1)
    /\ rule_count' = rule_count + 1
    /\ routed' = NotRouted

\* The rules a caller builds by hand and passes to add_rule.
CustomRules ==
    {RoutingRule("custom", "always", a, p) :
        a \in {Decide("custom", None, TRUE, NoAgent), ReturnsNone, Raises},
        p \in Priorities}
    \cup {RoutingRule("custom", "raises", ReturnsNone, p) : p \in Priorities}

\* The functions a caller passes to register_rule.
RuleFunctions == {Decide("custom", None, TRUE, "a1"), ReturnsNone}

AddRule(rule) ==
    /\ add_rule(rule)
    /\ UNCHANGED <<store_vars, now, ticks, config_vars, call_vars>>

\* register_rule(name, rule)
RegisterRule(fn) ==
    /\ add_rule(RoutingRule("registered", "always", fn, DefaultPriority))
    /\ UNCHANGED <<store_vars, now, ticks, config_vars, call_vars>>

\* add_keyword_rule(keywords, conversation_id, create_new, priority)
AddKeywordRule(conversation_id, create_new, priority) ==
    /\ add_rule(RoutingRule("keyword_rule_order", "keyword",
                            Decide("keyword_match", conversation_id, create_new, NoAgent),
                            priority))
    /\ UNCHANGED <<store_vars, now, ticks, config_vars, call_vars>>

\* add_pattern_rule(pattern, conversation_id, create_new, priority)
AddPatternRule(conversation_id, create_new, priority) ==
    /\ add_rule(RoutingRule("pattern_rule_^hel", "pattern",
                            Decide("pattern_match", conversation_id, create_new, NoAgent),
                            priority))
    /\ UNCHANGED <<store_vars, now, ticks, config_vars, call_vars>>

\* The store after the storage calls of route: get_list and get only read.
route_store(st, m, f) == st

\* A caller awaits route(m); the storage reads may fail.
RouteCall(m, f) ==
    /\ StoreBecomes(route_store(Store, m, f))
    /\ routed' = [called |-> TRUE, message |-> m, fault |-> f,
                  result |-> route(rules, m, f),
                  store_after |-> route_store(Store, m, f)]
    /\ UNCHANGED <<router_vars, now, ticks, config_vars, call_vars>>

\* A caller awaits create_conversation(m) on the Conversation Store.
CreateConversation(m) ==
    /\ next_conv <= MaxConvs
    /\ StoreBecomes(create_conversation(Store, m, NoAgent, now, 0).store)
    /\ routed' = NotRouted
    /\ UNCHANGED <<router_vars, now, ticks, config_vars, call_vars>>

\* Time passes.
Tick ==
    /\ ticks < MaxTicks
    /\ ticks' = ticks + 1
    /\ now' = now + TickMinutes
    /\ routed' = NotRouted
    /\ UNCHANGED <<router_vars, store_vars, config_vars, call_vars>>

RouterNext ==
    \/ \E rule \in CustomRules : AddRule(rule) /\ UNCHANGED other_vars
    \/ \E fn \in RuleFunctions : RegisterRule(fn) /\ UNCHANGED other_vars
    \/ \E c \in {None, 1} : AddKeywordRule(c, FALSE, DefaultPriority) /\ UNCHANGED other_vars
    \/ AddPatternRule(None, TRUE, IgnoreSystemPriority + 1) /\ UNCHANGED other_vars
    \/ \E m \in Messages(1), f \in StorageFaults : RouteCall(m, f) /\ UNCHANGED other_vars
    \/ \E m \in Messages(1) : CreateConversation(m) /\ UNCHANGED other_vars

\* The router of a pipeline that has no default agent.
RouterInit == Init /\ default_agent = NoAgent

RouterSpec == RouterInit /\ [][RouterNext]_vars

----------------------------------------------------------------------------
(***************************************************************************)
(* interceptor/message_interceptor.py                                      *)
(***************************************************************************)

\* A collaborator raises at site; no collaborator raises.
Fault(site) == faults < MaxFaults /\ faults' = faults + 1 /\ fault_site' = site
NoFault == UNCHANGED <<faults, fault_site>>
\* An exception is raised at site, by a failing collaborator or by the code.
Failure(site, injected) ==
    IF injected THEN Fault(site) ELSE faults' = faults /\ fault_site' = site

\* message.status = status
SetStatus(status) ==
    /\ message' = [message EXCEPT !.status = status]
    /\ status_log' = Append(status_log, status)

\* register_agent(agent_id, agent)
RegisterAgent(agent_id) ==
    /\ agent_id \notin agents
    /\ agents' = agents \cup {agent_id}
    /\ UNCHANGED <<router_vars, store_vars, now, ticks, routed, default_agent,
                   pre_processors, post_processors, call_vars>>

\* add_pre_processor(processor)
AddPreProcessor ==
    /\ Len(pre_processors) < MaxProcessors
    /\ pre_processors' = Append(pre_processors, Len(pre_processors) + 1)
    /\ UNCHANGED <<router_vars, store_vars, now, ticks, routed, default_agent,
                   agents, post_processors, call_vars>>

\* add_post_processor(processor)
AddPostProcessor ==
    /\ Len(post_processors) < MaxProcessors
    /\ post_processors' = Append(post_processors, Len(post_processors) + 1)
    /\ UNCHANGED <<router_vars, store_vars, now, ticks, routed, default_agent,
                   agents, pre_processors, call_vars>>

\* _select_agent(conversation)
select_agent(context) ==
    IF context.agent_id # NoAgent /\ context.agent_id \in agents
    THEN context.agent_id
    ELSE default_agent

\* A caller awaits intercept(m).
Intercept(m) ==
    /\ pc = "idle"
    /\ calls < MaxCalls
    /\ calls' = calls + 1
    /\ pc' = "pre"
    /\ message' = m
    /\ idx' = 1
    /\ routing_decision' = NoDecision
    /\ conversation' = NoContext
    /\ agent' = NoAgent
    /\ response' = NoResponse
    /\ outcome' = "none"
    /\ status_log' = <<m.status>>
    /\ store_ops' = <<>>
    /\ fault_site' = "none"
    /\ store_before' = Store
    /\ UNCHANGED <<router_vars, store_vars, now, ticks, routed, config_vars, faults>>

\* One pre-processor runs: it returns the message or raises.
PreProcess(raises) ==
    /\ pc = "pre"
    /\ idx <= Len(pre_processors)
    /\ IF raises
       THEN pc' = "except" /\ Fault("pre_processor") /\ idx' = idx
       ELSE pc' = "pre" /\ NoFault /\ idx' = idx + 1
    /\ UNCHANGED <<store_before, router_vars, store_vars, now, ticks, routed, config_vars, calls,
                   message, routing_decision, conversation, agent, response,
                   outcome, status_log, store_ops>>

\* message.status = MessageStatus.QUEUED
SetQueued ==
    /\ pc = "pre"
    /\ idx > Len(pre_processors)
    /\ SetStatus("QUEUED")
    /\ pc' = "route"
    /\ UNCHANGED <<store_before, router_vars, store_vars, now, ticks, routed, config_vars, calls,
                   idx, routing_decision, conversation, agent, response,
                   outcome, store_ops>>
    /\ NoFault

\* routing_decision = await self.router.route(message)
Route(f) ==
    /\ pc = "route"
    /\ LET r == route(rules, message, f) IN
       /\ IF r.outcome = "raised"
          THEN pc' = "except" /\ routing_decision' = routing_decision
          ELSE pc' = "routed" /\ routing_decision' = r.decision
       /\ IF f # "none" \/ r.outcome = "raised"
          THEN Failure("route", f # "none") ELSE NoFault
    /\ StoreBecomes(route_store(Store, message, f))
    /\ UNCHANGED <<store_before, router_vars, now, ticks, routed, config_vars, calls,
                   message, idx, conversation, agent, response, outcome,
                   status_log, store_ops>>

\* Variant: the return is missing, an ignored message goes on to its agent.
IgnoreFallsThrough ==
    /\ pc = "routed"
    /\ ~routing_decision.should_process
    /\ SetStatus("IGNORED")
    /\ pc' = "select"
    /\ UNCHANGED <<store_before, router_vars, store_vars, now, ticks, routed,
                   config_vars, calls, idx, routing_decision, conversation,
                   agent, response, outcome, store_ops>>
    /\ NoFault

\* if not routing_decision.should_process: IGNORED, return None
Ignore ==
    /\ pc = "routed"
    /\ ~routing_decision.should_process
    /\ SetStatus("IGNORED")
    /\ pc' = "done"
    /\ outcome' = "returned_none"
    /\ UNCHANGED <<store_before, router_vars, store_vars, now, ticks, routed, config_vars, calls,
                   idx, routing_decision, conversation, agent, response,
                   store_ops>>
    /\ NoFault

\* if routing_decision.create_new_conversation: create_conversation(...)
CreateBranch(fault_at) ==
    /\ pc = "routed"
    /\ routing_decision.should_process
    /\ routing_decision.create_new_conversation
    /\ next_conv <= MaxConvs
    /\ LET r == create_conversation(Store, message, routing_decision.agent_id,
                                    now, fault_at) IN
       /\ StoreBecomes(r.store)
       /\ store_ops' = Append(store_ops, "create")
       /\ IF r.raised
          THEN /\ pc' = "except"
               /\ Fault("create_conversation")
               /\ UNCHANGED <<conversation, message>>
          ELSE /\ pc' = "bound"
               /\ NoFault
               /\ conversation' = r.context
               /\ message' = [message EXCEPT !.conversation_id = r.context.conversation_id]
    /\ UNCHANGED <<store_before, router_vars, now, ticks, routed, config_vars, calls, idx,
                   routing_decision, agent, response, outcome, status_log>>

\* Variant: the fetched context is used without the check that it exists.
GetBranchUnchecked(raises) ==
    /\ pc = "routed"
    /\ routing_decision.should_process
    /\ ~routing_decision.create_new_conversation
    /\ routing_decision.conversation_id # None
    /\ store_ops' = Append(store_ops, "get")
    /\ LET got == get_conversation(Store, routing_decision.conversation_id) IN
       IF raises
       THEN /\ pc' = "except"
            /\ Fault("get_conversation")
            /\ UNCHANGED <<conversation, message>>
       ELSE /\ pc' = "bound"
            /\ conversation' = got.context
            /\ message' = [message EXCEPT !.conversation_id = got.context.conversation_id]
            /\ NoFault
    /\ UNCHANGED <<store_before, router_vars, store_vars, now, ticks, routed,
                   config_vars, calls, idx, routing_decision, agent, response,
                   status_log, outcome>>

\* elif routing_decision.conversation_id: get_conversation(...)
GetBranch(raises) ==
    /\ pc = "routed"
    /\ routing_decision.should_process
    /\ ~routing_decision.create_new_conversation
    /\ routing_decision.conversation_id # None
    /\ store_ops' = Append(store_ops, "get")
    /\ LET got == get_conversation(Store, routing_decision.conversation_id) IN
       IF raises
       THEN /\ pc' = "except"
            /\ Fault("get_conversation")
            /\ UNCHANGED <<conversation, message, status_log, outcome>>
       ELSE IF ~got.found
       THEN /\ SetStatus("FAILED")
            /\ pc' = "done"
            /\ outcome' = "returned_none"
            /\ NoFault
            /\ UNCHANGED conversation
       ELSE /\ pc' = "bound"
            /\ conversation' = got.context
            /\ message' = [message EXCEPT !.conversation_id = got.context.conversation_id]
            /\ NoFault
            /\ UNCHANGED <<status_log, outcome>>
    /\ UNCHANGED <<store_before, router_vars, store_vars, now, ticks, routed, config_vars, calls,
                   idx, routing_decision, agent, response>>

\* Variant: a message without conversation context is put back in the queue.
NoContextBranchRequeue ==
    /\ pc = "routed"
    /\ routing_decision.should_process
    /\ ~routing_decision.create_new_conversation
    /\ routing_decision.conversation_id = None
    /\ SetStatus("QUEUED")
    /\ pc' = "done"
    /\ outcome' = "returned_none"
    /\ UNCHANGED <<store_before, router_vars, store_vars, now, ticks, routed,
                   config_vars, calls, idx, routing_decision, conversation,
                   agent, response, store_ops>>
    /\ NoFault

\* else: "No conversation context for message", FAILED, return None
NoContextBranch ==
    /\ pc = "routed"
    /\ routing_decision.should_process
    /\ ~routing_decision.create_new_conversation
    /\ routing_decision.conversation_id = None
    /\ SetStatus("FAILED")
    /\ pc' = "done"
    /\ outcome' = "returned_none"
    /\ UNCHANGED <<store_before, router_vars, store_vars, now, ticks, routed, config_vars, calls,
                   idx, routing_decision, conversation, agent, response,
                   store_ops>>
    /\ NoFault

\* message.status = MessageStatus.PROCESSING
SetProcessing ==
    /\ pc = "bound"
    /\ SetStatus("PROCESSING")
    /\ pc' = "select"
    /\ UNCHANGED <<store_before, router_vars, store_vars, now, ticks, routed, config_vars, calls,
                   idx, routing_decision, conversation, agent, response,
                   outcome, store_ops>>
    /\ NoFault

\* Variant: the lookup of an agent that does not resolve raises.
SelectAgentRaises ==
    /\ pc = "select"
    /\ agent' = select_agent(conversation)
    /\ IF select_agent(conversation) = NoAgent
       THEN pc' = "except" /\ Failure("select_agent", FALSE)
       ELSE pc' = "agent" /\ NoFault
    /\ UNCHANGED <<store_before, router_vars, store_vars, now, ticks, routed,
                   config_vars, calls, message, status_log, outcome, idx,
                   routing_decision, conversation, response, store_ops>>

\* agent = self._select_agent(conversation); if not agent: FAILED, return None
SelectAgent ==
    /\ pc = "select"
    /\ agent' = select_agent(conversation)
    /\ IF select_agent(conversation) = NoAgent
       THEN /\ SetStatus("FAILED")
            /\ pc' = "done"
            /\ outcome' = "returned_none"
       ELSE /\ pc' = "agent"
            /\ UNCHANGED <<message, status_log, outcome>>
    /\ UNCHANGED <<store_before, router_vars, store_vars, now, ticks, routed, config_vars, calls,
                   idx, routing_decision, conversation, response, store_ops>>
    /\ NoFault

\* response = await agent.process_message(message, conversation): the agent
\* answers with a message ("response"), with None ("none"), or raises.
ProcessMessage(result) ==
    /\ pc = "agent"
    /\ IF result = "raise"
       THEN pc' = "except" /\ Fault("agent") /\ response' = response
       ELSE /\ pc' = "update_message"
            /\ NoFault
            /\ response' = IF result = "response"
                           THEN [id |-> 0 - message.id, status |-> "RECEIVED"]
                           ELSE NoResponse
    /\ UNCHANGED <<store_before, router_vars, store_vars, now, ticks, routed, config_vars, calls,
                   message, idx, routing_decision, conversation, agent,
                   outcome, status_log, store_ops>>

\* await update_conversation(conversation.conversation_id, message)
UpdateWithMessage(fault_at) ==
    /\ pc = "update_message"
    /\ LET r == update_conversation(Store, conversation.conversation_id, message,
                                    now, fault_at) IN
       /\ StoreBecomes(r.store)
       /\ IF r.raised
          THEN pc' = "except" /\ Failure("update_conversation", fault_at # 0)
          ELSE pc' = "update_response" /\ NoFault
    /\ store_ops' = Append(store_ops, "update")
    /\ UNCHANGED <<store_before, router_vars, now, ticks, routed, config_vars, calls, message,
                   idx, routing_decision, conversation, agent, response,
                   outcome, status_log>>

\* if response: await update_conversation(conversation.conversation_id, response)
UpdateWithResponse(fault_at) ==
    /\ pc = "update_response"
    /\ IF response # NoResponse
       THEN LET r == update_conversation(Store, conversation.conversation_id,
                                         response, now, fault_at) IN
            /\ StoreBecomes(r.store)
            /\ store_ops' = Append(store_ops, "update")
            /\ IF r.raised
               THEN pc' = "except" /\ Failure("update_conversation", fault_at # 0)
               ELSE pc' = "processed" /\ NoFault
       ELSE /\ fault_at = 0
            /\ pc' = "processed"
            /\ NoFault
            /\ UNCHANGED <<store_vars, store_ops>>
    /\ UNCHANGED <<store_before, router_vars, now, ticks, routed, config_vars, calls, message,
                   idx, routing_decision, conversation, agent, response,
                   outcome, status_log>>

\* message.status = MessageStatus.PROCESSED
SetProcessed ==
    /\ pc = "processed"
    /\ SetStatus("PROCESSED")
    /\ pc' = "post"
    /\ idx' = 1
    /\ UNCHANGED <<store_before, router_vars, store_vars, now, ticks, routed, config_vars, calls,
                   routing_decision, conversation, agent, response, outcome,
                   store_ops>>
    /\ NoFault

\* One post-processor runs on the response: it returns it or raises.
PostProcess(raises) ==
    /\ pc = "post"
    /\ response # NoResponse
    /\ idx <= Len(post_processors)
    /\ IF raises
       THEN pc' = "except" /\ Fault("post_processor") /\ idx' = idx
       ELSE pc' = "post" /\ NoFault /\ idx' = idx + 1
    /\ UNCHANGED <<store_before, router_vars, store_vars, now, ticks, routed, config_vars, calls,
                   message, routing_decision, conversation, agent, response,
                   outcome, status_log, store_ops>>

\* return response
Return ==
    /\ pc = "post"
    /\ response = NoResponse \/ idx > Len(post_processors)
    /\ pc' = "done"
    /\ outcome' = IF response = NoResponse THEN "returned_none" ELSE "returned_response"
    /\ UNCHANGED <<store_before, router_vars, store_vars, now, ticks, routed, config_vars, calls,
                   message, idx, routing_decision, conversation, agent, response,
                   status_log, store_ops>>
    /\ NoFault

\* Variant: the handler logs the fault and returns None.
ExceptionSwallowed ==
    /\ pc = "except"
    /\ SetStatus("FAILED")
    /\ pc' = "done"
    /\ outcome' = "returned_none"
    /\ UNCHANGED <<store_before, router_vars, store_vars, now, ticks, routed,
                   config_vars, calls, idx, routing_decision, conversation,
                   agent, response, store_ops>>
    /\ NoFault

\* Variant: the handler re-raises and leaves the status where it was.
ExceptionKeepsStatus ==
    /\ pc = "except"
    /\ pc' = "done"
    /\ outcome' = "raised"
    /\ UNCHANGED <<store_before, router_vars, store_vars, now, ticks, routed,
                   config_vars, calls, idx, routing_decision, conversation,
                   agent, response, store_ops, message, status_log>>
    /\ NoFault

\* except Exception as e: message.status = MessageStatus.FAILED; raise
ExceptionHandler ==
    /\ pc = "except"
    /\ SetStatus("FAILED")
    /\ pc' = "done"
    /\ outcome' = "raised"
    /\ UNCHANGED <<store_before, router_vars, store_vars, now, ticks, routed, config_vars, calls,
                   idx, routing_decision, conversation, agent, response,
                   store_ops>>
    /\ NoFault

\* The caller has taken the result or the exception of the call.
Finish ==
    /\ pc = "done"
    /\ pc' = "idle"
    /\ message' = NoMessage
    /\ idx' = 1
    /\ routing_decision' = NoDecision
    /\ conversation' = NoContext
    /\ agent' = NoAgent
    /\ response' = NoResponse
    /\ outcome' = "none"
    /\ status_log' = <<>>
    /\ store_ops' = <<>>
    /\ fault_site' = "none"
    /\ store_before' = EmptyStore
    /\ UNCHANGED <<router_vars, store_vars, now, ticks, routed, config_vars,
                   calls, faults>>

\* The application configures the pipeline, and time passes, between two
\* intercept calls; the clock starts with the first call.
Between == pc = "idle"

Next ==
    \/ Between /\ RegisterRule(Decide("custom", None, TRUE, "a1")) /\ UNCHANGED other_vars
    \/ Between /\ AddKeywordRule(None, FALSE, DefaultPriority) /\ UNCHANGED other_vars
    \/ Between /\ \E a \in AgentIds : RegisterAgent(a) /\ UNCHANGED other_vars
    \/ Between /\ AddPreProcessor /\ UNCHANGED other_vars
    \/ Between /\ AddPostProcessor /\ UNCHANGED other_vars
    \/ Between /\ calls > 0 /\ Tick /\ UNCHANGED other_vars
    \/ \E m \in InterceptMessages(calls + 1) : Intercept(m) /\ UNCHANGED other_vars
    \/ \E raises \in BOOLEAN : PreProcess(raises) /\ UNCHANGED other_vars
    \/ SetQueued /\ UNCHANGED other_vars
    \/ \E f \in StorageFaults : Route(f) /\ UNCHANGED other_vars
    \/ Ignore /\ UNCHANGED other_vars
    \/ \E fault_at \in 0..4 : CreateBranch(fault_at) /\ UNCHANGED other_vars
    \/ \E raises \in BOOLEAN : GetBranch(raises) /\ UNCHANGED other_vars
    \/ NoContextBranch /\ UNCHANGED other_vars
    \/ SetProcessing /\ UNCHANGED other_vars
    \/ SelectAgent /\ UNCHANGED other_vars
    \/ \E result \in {"response", "none", "raise"} : ProcessMessage(result) /\ UNCHANGED other_vars
    \/ \E fault_at \in 0..4 : UpdateWithMessage(fault_at) /\ UNCHANGED other_vars
    \/ \E fault_at \in 0..4 : UpdateWithResponse(fault_at) /\ UNCHANGED other_vars
    \/ SetProcessed /\ UNCHANGED other_vars
    \/ \E raises \in BOOLEAN : PostProcess(raises) /\ UNCHANGED other_vars
    \/ Return /\ UNCHANGED other_vars
    \/ ExceptionHandler /\ UNCHANGED other_vars
    \/ Finish /\ UNCHANGED other_vars

Spec == Init /\ [][Next]_vars

----------------------------------------------------------------------------
(***************************************************************************)
(* Properties of the routing engine, checked under RouterSpec.             *)
(***************************************************************************)

\* The rules registered after construction.
CustomRuleIndexes == {i \in 1..Len(rules) : rules[i].seq > 2}

\* Rule i fires for m: its condition holds and its action yields a decision.
Fires(i, m) ==
    Condition(rules[i], m) = "true" /\ Action(rules[i], m).kind = "decision"

\* Rule i is passed over for m: its condition is false or its action yields None.
PassedOver(i, m) ==
    \/ Condition(rules[i], m) = "false"
    \/ Condition(rules[i], m) = "true" /\ Action(rules[i], m).kind = "none"

\* Rule i fails for m: its condition or its action raises.
Fails(i, m) ==
    \/ Condition(rules[i], m) = "raise"
    \/ Condition(rules[i], m) = "true" /\ Action(rules[i], m).kind = "raise"

\* C1 as stated: a system message is declined by route whatever custom rules
\* are registered, at any priority.
C1_SystemDeclinedAnyPriority ==
    (routed.called /\ routed.message.is_system)
        => /\ routed.result.outcome = "returned"
           /\ ~routed.result.decision.should_process

\* C1, amended: a system message is declined by route whatever custom rules
\* are registered, as long as none has a priority above that of the built-in
\* ignore-system rule (100).
C1_SystemDeclined ==
    (/\ routed.called
     /\ routed.message.is_system
     /\ \A i \in CustomRuleIndexes : rules[i].priority <= IgnoreSystemPriority)
        => /\ routed.result.outcome = "returned"
           /\ ~routed.result.decision.should_process

\* A system message was routed past a custom rule of priority 100 that accepts
\* every message, and was declined.
C1_Witness ==
    /\ routed.called
    /\ routed.message.is_system
    /\ routed.fault = "none"
    /\ \A i \in CustomRuleIndexes : rules[i].priority <= IgnoreSystemPriority
    /\ \E i \in CustomRuleIndexes :
          /\ rules[i].priority = IgnoreSystemPriority
          /\ Fires(i, routed.message)
    /\ ~routed.result.decision.should_process
    /\ routed.result.fired = 1

\* C2: the rule list is ordered by non-increasing priority, rules of equal
\* priority in insertion order; route evaluates the rules in the order of the
\* list; a rule registered with a priority above every other rule is first in
\* the list and the first one evaluated by the next route call.
C2_RuleOrder ==
    /\ \A i, j \in 1..Len(rules) :
          i < j => \/ rules[i].priority > rules[j].priority
                   \/ /\ rules[i].priority = rules[j].priority
                      /\ rules[i].seq < rules[j].seq
    /\ \A i \in 1..Len(rules) :
          (/\ rules[i].seq = rule_count
           /\ \A j \in 1..Len(rules) : j # i => rules[j].priority < rules[i].priority)
             => i = 1
    /\ routed.called =>
          /\ Len(routed.result.evaluated) <= Len(rules)
          /\ \A k \in 1..Len(routed.result.evaluated) :
                routed.result.evaluated[k] = rules[k].seq
          /\ routed.fault # "find" => routed.result.evaluated # <<>>

\* The rule registered last has the highest priority and was evaluated first,
\* and two rules of the same priority were evaluated after it.
C2_Witness ==
    /\ Len(rules) = 4
    /\ rules[1].seq = rule_count
    /\ rules[1].priority > rules[2].priority
    /\ rules[2].priority = rules[3].priority
    /\ routed.called
    /\ Len(routed.result.evaluated) >= 3
    /\ routed.result.evaluated[1] = rule_count

\* C3: route returns the decision of the first rule, in the order of the
\* list, whose condition holds and whose action yields a decision; a rule
\* whose action yields None is passed over; no rule after the firing one is
\* evaluated; the default logic is reached only when no rule fired.
C3_FirstMatchWins ==
    routed.called =>
        LET res == routed.result
            m == routed.message
            n == Len(res.evaluated)
        IN  /\ res.path = "decision" =>
                 /\ n >= 1
                 /\ res.fired = rules[n].seq
                 /\ Fires(n, m)
                 /\ res.decision = Action(rules[n], m).decision
                 /\ \A k \in 1..(n - 1) : PassedOver(k, m)
            /\ res.path = "default" =>
                 /\ res.fired = 0
                 /\ n = Len(rules)
                 /\ \A k \in 1..Len(rules) : PassedOver(k, m)
            /\ (routed.fault # "find" /\ \E k \in 1..Len(rules) :
                    Fires(k, m) /\ \A j \in 1..(k - 1) : PassedOver(j, m))
                 => res.path = "decision"

\* A rule whose condition held returned None and was passed over, the next
\* rule fired, and a rule after the firing one was not evaluated.
C3_Witness ==
    /\ routed.called
    /\ routed.result.path = "decision"
    /\ Len(routed.result.evaluated) >= 2
    /\ Len(routed.result.evaluated) < Len(rules)
    /\ \E k \in 1..(Len(routed.result.evaluated) - 1) :
          /\ Condition(rules[k], routed.message) = "true"
          /\ Action(rules[k], routed.message).kind = "none"
    /\ Fires(Len(routed.result.evaluated) + 1, routed.message)

\* route met a failure: the lookup of the sender's conversation, a condition
\* or an action raised before a rule fired, or the read of the last activity
\* raised in the default logic.
RouteFailed ==
    LET m == routed.message IN
    \/ routed.fault = "find"
    \/ \E k \in 1..Len(rules) : Fails(k, m) /\ \A j \in 1..(k - 1) : PassedOver(j, m)
    \/ /\ routed.fault = "activity"
       /\ \A k \in 1..Len(rules) : PassedOver(k, m)
       /\ find_active_conversation(m.sender_id) # None

\* C4: route never raises; when a condition, an action or the storage lookup
\* fails, route returns a decision with should_process = false whose reason
\* carries the error text; route changes nothing in the store.
C4_RouteNeverRaises ==
    routed.called =>
        /\ routed.result.outcome = "returned"
        /\ RouteFailed =>
              /\ routed.result.path = "error"
              /\ ~routed.result.decision.should_process
              /\ ~routed.result.decision.create_new_conversation
              /\ routed.result.decision.reason.text = "Routing error"
              /\ routed.result.decision.reason.error = routed.result.error
              /\ routed.result.error \in {"condition failed", "action failed",
                                          "storage failed"}
        /\ routed.result.path = "error" => RouteFailed
        /\ routed.store_after = Store

\* The action of a rule raised while a conversation was stored, and route
\* returned a decline.
C4_Witness ==
    /\ routed.called
    /\ routed.result.outcome = "returned"
    /\ routed.result.error = "action failed"
    /\ ~routed.result.decision.should_process
    /\ contexts # <<>>

----------------------------------------------------------------------------
(***************************************************************************)
(* Properties of the interceptor pipeline, checked under Spec.             *)
(***************************************************************************)

\* MessageStatus: the position of a status in the chain
\* RECEIVED -> QUEUED -> PROCESSING -> {PROCESSED, FAILED, IGNORED}
StatusRank(status) ==
    CASE status = "RECEIVED" -> 0
      [] status = "QUEUED" -> 1
      [] status = "PROCESSING" -> 2
      [] status \in {"PROCESSED", "FAILED", "IGNORED"} -> 3

\* The message has had this status in the current call.
InLog(status) == \E k \in 1..Len(status_log) : status_log[k] = status

\* route has returned its decision to the current call.
RouteReturned ==
    Len(status_log) >= 2 /\ status_log[2] = "QUEUED" /\ pc # "route"

\* The sites at which a collaborator of intercept raises.
StoreSites == {"create_conversation", "get_conversation", "update_conversation"}
CollaboratorSites == StoreSites \cup {"pre_processor", "agent", "post_processor"}

\* C5 as stated: every status change of an intercept call goes to a strictly
\* later state of the chain.
C5_StrictlyForward ==
    \A k \in 1..(Len(status_log) - 1) :
        StatusRank(status_log[k]) < StatusRank(status_log[k + 1])

\* C5, amended: every status change of an intercept call goes to a strictly
\* later state of the chain, except for the change from PROCESSED to FAILED
\* that a faulting post-processor causes; no change goes back to an earlier
\* state.
C5_ForwardOnly ==
    \A k \in 1..(Len(status_log) - 1) :
        \/ StatusRank(status_log[k]) < StatusRank(status_log[k + 1])
        \/ /\ status_log[k] = "PROCESSED"
           /\ status_log[k + 1] = "FAILED"
           /\ k + 1 = Len(status_log)
           /\ fault_site = "post_processor"

\* A call went through the whole chain and a post-processor then failed.
C5_Witness ==
    /\ pc = "done"
    /\ status_log = <<"RECEIVED", "QUEUED", "PROCESSING", "PROCESSED", "FAILED">>

\* C6: when route returns should_process = false, intercept sets the status
\* to IGNORED, returns None and performs no Conversation Store operation: the
\* store is as it was when the call began.
C6_DeclinedTouchesNothing ==
    (RouteReturned /\ ~routing_decision.should_process) =>
        /\ store_ops = <<>>
        /\ Store = store_before
        /\ message.conversation_id = None
        /\ pc \in {"routed", "done"}
        /\ pc = "done" => message.status = "IGNORED" /\ outcome = "returned_none"

\* A system message was declined while a conversation of its sender was stored.
C6_Witness ==
    /\ pc = "done"
    /\ message.is_system
    /\ message.status = "IGNORED"
    /\ outcome = "returned_none"
    /\ active_conversations[message.sender_id] # <<>>

\* The decision names a target conversation that has no stored context.
MissingTarget ==
    /\ RouteReturned
    /\ routing_decision.should_process
    /\ ~routing_decision.create_new_conversation
    /\ routing_decision.conversation_id # None
    /\ routing_decision.conversation_id \notin DOMAIN contexts

\* The decision neither requests a new conversation nor names a target.
NoTarget ==
    /\ RouteReturned
    /\ routing_decision.should_process
    /\ ~routing_decision.create_new_conversation
    /\ routing_decision.conversation_id = None

\* C7: the status becomes PROCESSING or PROCESSED and an agent is selected
\* only for a message bound to a conversation that the Conversation Store
\* created or returned in this call; a decision without a target, or with a
\* target that has no stored context, ends the call FAILED before any agent is
\* selected.
C7_BoundConversation ==
    /\ (InLog("PROCESSING") \/ InLog("PROCESSED") \/ agent # NoAgent
            \/ pc \in {"select", "agent", "update_message", "update_response",
                       "processed", "post"}) =>
          /\ conversation # NoContext
          /\ message.conversation_id # None
          /\ message.conversation_id = conversation.conversation_id
          /\ message.conversation_id \in DOMAIN contexts
          /\ store_ops # <<>>
          /\ store_ops[1] \in {"create", "get"}
          /\ store_ops[1] = "create" =>
                message.conversation_id \notin DOMAIN store_before.contexts
          /\ store_ops[1] = "get" =>
                /\ message.conversation_id = routing_decision.conversation_id
                /\ message.conversation_id \in DOMAIN store_before.contexts
    /\ (pc = "done" /\ (NoTarget \/ (MissingTarget /\ fault_site # "get_conversation"))) =>
          /\ message.status = "FAILED"
          /\ outcome = "returned_none"
          /\ agent = NoAgent
          /\ ~InLog("PROCESSING")
          /\ message.conversation_id = None

\* A keyword rule built with its default arguments fired: the decision has no
\* target and the call ended FAILED.
C7_Witness ==
    /\ pc = "done"
    /\ NoTarget
    /\ message.status = "FAILED"
    /\ agent = NoAgent

\* C8: intercept returns None, and does not raise, when routing declined
\* (IGNORED), when the named target conversation is missing (FAILED) and when
\* no agent resolves: the bound agent id is not registered and there is no
\* default agent (FAILED).
C8_NegativeOutcomesReturnNone ==
    pc = "done" =>
        /\ (RouteReturned /\ ~routing_decision.should_process) =>
              outcome = "returned_none" /\ message.status = "IGNORED"
        /\ (MissingTarget /\ fault_site # "get_conversation") =>
              outcome = "returned_none" /\ message.status = "FAILED"
        /\ (InLog("PROCESSING") /\ select_agent(conversation) = NoAgent) =>
              /\ outcome = "returned_none"
              /\ message.status = "FAILED"
              /\ status_log = <<"RECEIVED", "QUEUED", "PROCESSING", "FAILED">>

\* The conversation is bound to an agent id that is not registered, there is
\* no default agent, and the call returned None.
C8_Witness ==
    /\ pc = "done"
    /\ conversation.agent_id \in AgentIds
    /\ conversation.agent_id \notin agents
    /\ default_agent = NoAgent
    /\ message.status = "FAILED"
    /\ outcome = "returned_none"

\* C9: a fault raised by a pre-processor, the Conversation Store, the agent
\* or a post-processor sets the status to FAILED and leaves intercept as an
\* exception; intercept returns nothing after such a fault, and raises only
\* after one.
C9_FaultsPropagate ==
    /\ (pc = "done" /\ fault_site \in CollaboratorSites) =>
          message.status = "FAILED" /\ outcome = "raised"
    /\ (pc = "done" /\ outcome = "raised") => fault_site \in CollaboratorSites
    /\ pc = "except" => fault_site \in CollaboratorSites

\* The agent produced a response, a post-processor raised, and intercept raised.
C9_Witness ==
    /\ pc = "done"
    /\ fault_site = "post_processor"
    /\ response # NoResponse
    /\ outcome = "raised"
    /\ message.status = "FAILED"

\* The status the message had before its last change.
StatusBeforeLast == status_log[Len(status_log) - 1]

\* C10 as stated: a storage failure during intercept propagates and leaves
\* the status at the stage it had reached before the failure.
C10_StatusLeftAtStage ==
    (pc = "done" /\ fault_site \in StoreSites) =>
        /\ outcome = "raised"
        /\ Len(status_log) = 2 => message.status = "QUEUED"
        /\ Len(status_log) > 2 => message.status = "PROCESSING"

\* C10, amended: a storage failure during intercept propagates out of
\* intercept and the status is set to FAILED; the stage reached before the
\* failure (QUEUED while the conversation is resolved, PROCESSING after agent
\* selection) is replaced by FAILED.
C10_StorageFailureMarksFailed ==
    (pc = "done" /\ fault_site \in StoreSites) =>
        /\ outcome = "raised"
        /\ message.status = "FAILED"
        /\ fault_site = "update_conversation" => StatusBeforeLast = "PROCESSING"
        /\ fault_site \in {"create_conversation", "get_conversation"} =>
              StatusBeforeLast = "QUEUED"

\* The agent replied, the Conversation Store failed to persist, intercept raised.
C10_Witness ==
    /\ pc = "done"
    /\ fault_site = "update_conversation"
    /\ response # NoResponse
    /\ outcome = "raised"
    /\ status_log = <<"RECEIVED", "QUEUED", "PROCESSING", "FAILED">>


----------------------------------------------------------------------------
(***************************************************************************)
(* Conversation continuity: the default logic of route.                    *)
(***************************************************************************)

\* A router with only the built-in rules, over a store in which conversations
\* are created and time passes.
ContinuityNext ==
    \/ \E m \in Messages(1), f \in StorageFaults : RouteCall(m, f) /\ UNCHANGED other_vars
    \/ \E m \in Messages(1) : CreateConversation(m) /\ UNCHANGED other_vars
    \/ Tick /\ UNCHANGED other_vars

ContinuitySpec == RouterInit /\ [][ContinuityNext]_vars

\* The last route call ran the default logic with only the built-in rules,
\* for a sender whose single conversation c has a recorded last activity.
SecondMessage(c) ==
    /\ routed.called
    /\ routed.fault = "none"
    /\ Len(rules) = 2
    /\ routed.result.path = "default"
    /\ active_conversations[routed.message.sender_id] = <<c>>
    /\ c \in DOMAIN last_activity

Continues(decision, c) ==
    /\ decision.should_process
    /\ decision.conversation_id = c
    /\ ~decision.create_new_conversation

StartsNew(decision) ==
    /\ decision.should_process
    /\ decision.conversation_id = None
    /\ decision.create_new_conversation

\* content.strip() is not empty
NonBlank(content) == content \notin {"", " "}

\* C11 as stated: with only the built-in rules and no rule firing, a second
\* message is routed to the sender's conversation when its last activity is
\* less than 30 minutes old, and to a new conversation when it is older.
C11_ContinueOrCreate ==
    \A c \in ConvIds :
        SecondMessage(c) =>
            /\ now - last_activity[c] < TimeoutMinutes
                    => Continues(routed.result.decision, c)
            /\ now - last_activity[c] > TimeoutMinutes
                    => StartsNew(routed.result.decision)

\* C11, amended: with only the built-in rules and no rule firing, a second
\* message is routed to the sender's conversation when its last activity is
\* less than 30 minutes old; when it is older, the message is routed to a new
\* conversation if its content is not blank or it carries the
\* start_conversation flag, and is declined otherwise.
C11_ContinueOrCreateNonBlank ==
    \A c \in ConvIds :
        SecondMessage(c) =>
            /\ now - last_activity[c] < TimeoutMinutes
                    => Continues(routed.result.decision, c)
            /\ now - last_activity[c] > TimeoutMinutes
                    => IF NonBlank(routed.message.content)
                          \/ routed.message.start_conversation
                       THEN StartsNew(routed.result.decision)
                       ELSE ~routed.result.decision.should_process

\* A message routed after the window has passed starts a new conversation.
C11_Witness ==
    \E c \in ConvIds :
        /\ SecondMessage(c)
        /\ now - last_activity[c] > TimeoutMinutes
        /\ StartsNew(routed.result.decision)


----------------------------------------------------------------------------
(***************************************************************************)
(* The first message of a sender, through the whole pipeline.              *)
(***************************************************************************)

\* An intercept call has ended for a sender who had no conversation, with
\* only the built-in rules, a default agent, no fault, and an agent that
\* answers whenever it is called.
FirstMessageDone ==
    /\ pc = "done"
    /\ Len(rules) = 2
    /\ default_agent # NoAgent
    /\ fault_site = "none"
    /\ store_before.active_conversations[message.sender_id] = <<>>
    /\ ~(agent # NoAgent /\ response = NoResponse)

\* The call created one conversation, bound the message to it, called the
\* default agent, ended PROCESSED and returned the response.
CreatedAndAnswered ==
    /\ routing_decision.should_process
    /\ routing_decision.create_new_conversation
    /\ next_conv = store_before.next_conv + 1
    /\ DOMAIN contexts = DOMAIN store_before.contexts \cup {store_before.next_conv}
    /\ store_ops[1] = "create"
    /\ \A k \in 2..Len(store_ops) : store_ops[k] # "create"
    /\ message.conversation_id = store_before.next_conv
    /\ active_conversations[message.sender_id] = <<message.conversation_id>>
    /\ agent = default_agent
    /\ message.status = "PROCESSED"
    /\ outcome = "returned_response"
    /\ response # NoResponse

----------------------------------------------------------------------------
(***************************************************************************)
(* A LocalFileStorage used by callers, one awaited call at a time.         *)
(***************************************************************************)

\* One more storage call, recorded with what it returned.
StorageCall(record) ==
    /\ ops < MaxOps
    /\ ops' = ops + 1
    /\ op' = [record EXCEPT !.before = [primary |-> primary, secondary |-> secondary]]

\* The caller's write on key is recorded; the other keys keep theirs.
Wrote(key, kind, value, ttl) ==
    last_write' = [last_write EXCEPT ![key] =
                      [kind |-> kind, value |-> value, time |-> clock, ttl |-> ttl]]

\* await storage.set(key, value, ttl)
Set(key, value, ttl) ==
    /\ StorageCall([NoOp EXCEPT !.name = "set", !.key = key, !.value = value])
    /\ primary' = set(primary, key, value, ttl, clock)
    /\ Wrote(key, "set", value, ttl)
    /\ migrated' = NotMigrated
    /\ UNCHANGED <<system_vars, runtime_vars, secondary, sync_enabled, clock, lock, tasks>>

\* await storage.get(key)
Get(key) ==
    /\ StorageCall([NoOp EXCEPT !.name = "get", !.key = key,
                                !.value = get(primary, key, clock).value])
    /\ primary' = get(primary, key, clock).backend
    /\ migrated' = NotMigrated
    /\ UNCHANGED <<system_vars, runtime_vars, secondary, sync_enabled, clock, last_write, lock, tasks>>

\* await storage.exists(key)
Exists(key) ==
    /\ StorageCall([NoOp EXCEPT !.name = "exists", !.key = key,
                                !.flag = exists(primary, key, clock).value])
    /\ primary' = exists(primary, key, clock).backend
    /\ migrated' = NotMigrated
    /\ UNCHANGED <<system_vars, runtime_vars, secondary, sync_enabled, clock, last_write, lock, tasks>>

\* await storage.delete(key)
Delete(key) ==
    /\ StorageCall([NoOp EXCEPT !.name = "delete", !.key = key])
    /\ primary' = delete(primary, key)
    /\ Wrote(key, "delete", Absent, None)
    /\ migrated' = NotMigrated
    /\ UNCHANGED <<system_vars, runtime_vars, secondary, sync_enabled, clock, lock, tasks>>

\* await storage.list_keys(pattern)
ListKeys(pattern) ==
    /\ StorageCall([NoOp EXCEPT !.name = "list_keys", !.pattern = pattern,
                                !.listed = list_keys(primary, pattern, clock)])
    /\ UNCHANGED <<system_vars, runtime_vars, primary, secondary, sync_enabled, clock,
                   last_write, lock, tasks, migrated>>

\* await storage.append_to_list(key, value), no other append in flight
AppendToList(key, value) ==
    /\ lock = 0
    /\ StorageCall([NoOp EXCEPT !.name = "append_to_list", !.key = key, !.value = value])
    /\ primary' = append_to_list(primary, key, value)
    /\ Wrote(key, "append", value, None)
    /\ migrated' = NotMigrated
    /\ UNCHANGED <<system_vars, runtime_vars, secondary, sync_enabled, clock, lock, tasks>>

\* Time passes.
ClockTick ==
    /\ clock < MaxClock
    /\ clock' = clock + 1
    /\ op' = NoOp
    /\ migrated' = NotMigrated
    /\ UNCHANGED <<system_vars, runtime_vars, primary, secondary, sync_enabled, ops,
                   last_write, lock, tasks>>

FileNext ==
    \/ \E key \in Keys, value \in Values, ttl \in Ttls : Set(key, value, ttl)
    \/ \E key \in Keys : Get(key)
    \/ \E key \in Keys : Exists(key)
    \/ \E key \in Keys : Delete(key)
    \/ \E pattern \in Patterns : ListKeys(pattern)
    \/ \E key \in Keys, value \in Values : AppendToList(key, value)
    \/ ClockTick

\* The backend of a pipeline that has no default agent.
FileSpec == RouterInit /\ [][FileNext]_vars


----------------------------------------------------------------------------
(***************************************************************************)
(* Properties of the file backend, checked under FileSpec.                 *)
(***************************************************************************)

\* The last write of a caller on key was a set, with or without a ttl.
LastSet(key) == last_write[key].kind = "set"
Expiry(key) == last_write[key].time + last_write[key].ttl

\* The members of a sequence.
Range(seq) == {seq[i] : i \in 1..Len(seq)}

\* C14: a key whose last write is set(key, value, ttl) is returned by get and
\* reported by exists at every instant before now + ttl; after now + ttl get
\* returns absent, exists returns false and list_keys leaves the key out; get
\* and exists agree at every instant.
C14_TtlExpiry ==
    \A key \in Keys :
        LastSet(key) /\ last_write[key].ttl # None =>
            LET value == get(primary, key, clock).value
                found == exists(primary, key, clock).value
            IN  /\ clock < Expiry(key) => value = last_write[key].value /\ found
                /\ clock > Expiry(key) =>
                        /\ value = Absent
                        /\ ~found
                        /\ key \notin Range(list_keys(primary, <<"*">>, clock))
                /\ found <=> value # Absent

\* C15: after set(k, v2) with no ttl, get(k) returns v2 at every later time,
\* also when an earlier set gave the key a ttl that has since elapsed.
C15_SetWithoutTtlNeverExpires ==
    \A key \in Keys :
        LastSet(key) /\ last_write[key].ttl = None =>
            get(primary, key, clock).value = last_write[key].value

\* C16: list_keys(pattern) returns each key once, returns only keys that were
\* written with set or append_to_list, and returns every key matching the
\* pattern whose last write is a set that has not expired.
C16_ListKeysExact ==
    op.name = "list_keys" =>
        /\ \A i, j \in 1..Len(op.listed) : op.listed[i] = op.listed[j] => i = j
        /\ \A key \in Range(op.listed) :
                /\ key \in Keys
                /\ last_write[key].kind \in {"set", "append"}
                /\ Match(op.pattern, key)
        /\ \A key \in Keys :
                /\ LastSet(key)
                /\ last_write[key].ttl # None => clock <= Expiry(key)
                /\ Match(op.pattern, key)
                => key \in Range(op.listed)


----------------------------------------------------------------------------
(***************************************************************************)
(* Concurrent append_to_list calls on one LocalFileStorage.  A call waits  *)
(* for the lock, reads the list file, writes it back and releases the lock.*)
(***************************************************************************)

Tasks == 1..MaxTasks

TaskStep(t, pc_now, pc_next) ==
    /\ tasks[t].pc = pc_now
    /\ tasks' = [tasks EXCEPT ![t].pc = pc_next]

\* A caller starts append_to_list(key, value) without awaiting the others.
CallAppend(t, key, value) ==
    /\ tasks[t].pc = "idle"
    /\ tasks' = [tasks EXCEPT ![t] = [pc |-> "waiting", key |-> key, value |-> value,
                                      existing_list |-> <<>>]]
    /\ UNCHANGED <<system_vars, runtime_vars, primary, secondary, sync_enabled, clock, op, ops,
                   last_write, lock, migrated>>

\* async with self._lock: the lock is taken when it is free
Acquire(t) ==
    /\ lock = 0
    /\ TaskStep(t, "waiting", "locked")
    /\ lock' = t
    /\ UNCHANGED <<system_vars, runtime_vars, primary, secondary, sync_enabled, clock, op, ops,
                   last_write, migrated>>

\* existing_list = the values of the list file, [] when there is none
ReadList(t) ==
    /\ tasks[t].pc = "locked"
    /\ tasks' = [tasks EXCEPT ![t].pc = "read",
                              ![t].existing_list = get_list(primary, tasks[t].key)]
    /\ UNCHANGED <<system_vars, runtime_vars, primary, secondary, sync_enabled, clock, op, ops,
                   last_write, lock, migrated>>

\* existing_list.append(value); the file is written back
WriteList(t) ==
    /\ TaskStep(t, "read", "written")
    /\ primary' = [primary EXCEPT !.files =
                      Put(@, get_list_file_path(tasks[t].key),
                          ListFile(Append(tasks[t].existing_list, tasks[t].value)))]
    /\ UNCHANGED <<system_vars, runtime_vars, secondary, sync_enabled, clock, op, ops,
                   last_write, lock, migrated>>

\* the end of the async with block
Release(t) ==
    /\ TaskStep(t, "written", "done")
    /\ lock' = 0
    /\ UNCHANGED <<system_vars, runtime_vars, primary, secondary, sync_enabled, clock, op, ops,
                   last_write, migrated>>

AppendNext ==
    \/ \E t \in Tasks, key \in Keys, value \in Values : CallAppend(t, key, value)
    \/ \E t \in Tasks : Acquire(t)
    \/ \E t \in Tasks : ReadList(t)
    \/ \E t \in Tasks : WriteList(t)
    \/ \E t \in Tasks : Release(t)

AppendSpec == RouterInit /\ [][AppendNext]_vars

\* The appends of value to key that have completed.
Appended(key, value) ==
    {t \in Tasks : tasks[t].pc = "done" /\ tasks[t].key = key /\ tasks[t].value = value}

\* The number of entries of a list that equal value.
Occurrences(list, value) == Cardinality({i \in 1..Len(list) : list[i] = value})

\* Every call that was started has completed.
AllCompleted == \A t \in Tasks : tasks[t].pc \in {"idle", "done"}

\* C13: when the concurrent append_to_list calls have all completed, the list
\* of every key holds exactly the values appended to that key, each as many
\* times as it was appended; a key nothing was appended to has an empty list.
C13_AllAppendsLand ==
    AllCompleted =>
        \A key \in Keys :
            /\ \A value \in Values :
                  Occurrences(get_list(primary, key), value)
                      = Cardinality(Appended(key, value))
            /\ Len(get_list(primary, key))
                  = Cardinality({t \in Tasks : tasks[t].pc = "done" /\ tasks[t].key = key})


----------------------------------------------------------------------------
(***************************************************************************)
(* A HybridStorage over two LocalFileStorage backends.  The secondary is a *)
(* store of its own, which its owner may also write directly.              *)
(***************************************************************************)

\* await hybrid.enable_sync()
EnableSync ==
    /\ ~sync_enabled
    /\ StorageCall([NoOp EXCEPT !.name = "enable_sync"])
    /\ sync_enabled' = TRUE
    /\ migrated' = NotMigrated
    /\ UNCHANGED <<system_vars, runtime_vars, primary, secondary, clock, last_write, lock, tasks>>

\* await hybrid.get(key)
HybridGet(key) ==
    LET r == hybrid_get(primary, secondary, sync_enabled, key, clock) IN
    /\ StorageCall([NoOp EXCEPT !.name = "hybrid_get", !.key = key, !.value = r.value])
    /\ primary' = r.primary
    /\ secondary' = r.secondary
    /\ migrated' = NotMigrated
    /\ UNCHANGED <<system_vars, runtime_vars, sync_enabled, clock, last_write, lock, tasks>>

\* await hybrid.set(key, value, ttl)
HybridSet(key, value, ttl) ==
    LET r == hybrid_set(primary, secondary, sync_enabled, key, value, ttl, clock) IN
    /\ StorageCall([NoOp EXCEPT !.name = "hybrid_set", !.key = key, !.value = value])
    /\ primary' = r.primary
    /\ secondary' = r.secondary
    /\ migrated' = NotMigrated
    /\ UNCHANGED <<system_vars, runtime_vars, sync_enabled, clock, last_write, lock, tasks>>

\* await hybrid.append_to_list(key, value)
HybridAppendToList(key, value) ==
    LET r == hybrid_append_to_list(primary, secondary, sync_enabled, key, value) IN
    /\ StorageCall([NoOp EXCEPT !.name = "hybrid_append_to_list", !.key = key,
                                !.value = value])
    /\ primary' = r.primary
    /\ secondary' = r.secondary
    /\ migrated' = NotMigrated
    /\ UNCHANGED <<system_vars, runtime_vars, sync_enabled, clock, last_write, lock, tasks>>

\* await hybrid.delete(key)
HybridDelete(key) ==
    LET r == hybrid_delete(primary, secondary, key) IN
    /\ StorageCall([NoOp EXCEPT !.name = "hybrid_delete", !.key = key])
    /\ primary' = r.primary
    /\ secondary' = r.secondary
    /\ migrated' = NotMigrated
    /\ UNCHANGED <<system_vars, runtime_vars, sync_enabled, clock, last_write, lock, tasks>>

\* The owner of the secondary backend awaits secondary.set(key, value).
SecondarySet(key, value) ==
    /\ StorageCall([NoOp EXCEPT !.name = "secondary_set", !.key = key, !.value = value])
    /\ secondary' = set(secondary, key, value, None, clock)
    /\ migrated' = NotMigrated
    /\ UNCHANGED <<system_vars, runtime_vars, primary, sync_enabled, clock, last_write, lock, tasks>>

\* await hybrid.migrate_to_secondary(); write number fault_at of the run
\* raises (0: the run completes).
Migrate(fault_at) ==
    LET r == migrate_to_secondary(primary, secondary, fault_at, clock) IN
    /\ fault_at = 0 \/ r.raised
    /\ StorageCall([NoOp EXCEPT !.name = "migrate", !.raised = r.raised])
    /\ primary' = r.primary
    /\ secondary' = r.secondary
    /\ migrated' = [runs |-> migrated.runs + 1,
                    reference |-> IF migrated.runs = 0
                                  THEN migrate_to_secondary(primary, secondary, 0,
                                                            clock).secondary
                                  ELSE migrated.reference]
    /\ UNCHANGED <<system_vars, runtime_vars, sync_enabled, clock, last_write, lock, tasks>>

HybridNext ==
    \/ EnableSync
    \/ \E key \in Keys : HybridGet(key)
    \/ \E key \in Keys, value \in Values, ttl \in Ttls : HybridSet(key, value, ttl)
    \/ \E key \in Keys, value \in Values : HybridAppendToList(key, value)
    \/ \E key \in Keys : HybridDelete(key)
    \/ \E key \in Keys, value \in Values : SecondarySet(key, value)
    \/ \E fault_at \in 0..2 : Migrate(fault_at)
    \/ ClockTick

HybridSpec == RouterInit /\ [][HybridNext]_vars


----------------------------------------------------------------------------
(***************************************************************************)
(* Properties of the hybrid store, checked under HybridSpec.  The last     *)
(* call is op, the backends before it are op.before.                       *)
(***************************************************************************)

\* What each backend answered for key just before the last call.
PrimaryHad(key) == get(op.before.primary, key, clock).value
SecondaryHad(key) == get(op.before.secondary, key, clock).value

\* The last call was hybrid.get(key) and the value came from the secondary.
ServedBySecondary ==
    /\ op.name = "hybrid_get"
    /\ PrimaryHad(op.key) = Absent
    /\ SecondaryHad(op.key) # Absent

\* The value returned by the get, and the cache-fill under sync.
GetReadsThrough ==
    op.name = "hybrid_get" =>
        /\ op.value = IF PrimaryHad(op.key) # Absent
                      THEN PrimaryHad(op.key) ELSE SecondaryHad(op.key)
        /\ ServedBySecondary /\ sync_enabled =>
                /\ get(primary, op.key, clock).value = op.value
                /\ hybrid_get(primary, secondary, sync_enabled, op.key, clock).value
                        = op.value

\* C17 as stated: hybrid.get returns the primary's value when it has one,
\* else the secondary's; a value found only in the secondary is written into
\* the primary when sync is enabled, so that the next get is served from the
\* primary with the same value; with sync disabled a get leaves the primary
\* unchanged.
C17_GetLeavesPrimaryUnchanged ==
    /\ GetReadsThrough
    /\ op.name = "hybrid_get" /\ ~sync_enabled => primary = op.before.primary

\* C17, amended: the same, except that with sync disabled a get changes the
\* primary only by the lazy deletion of the key when it has expired there.
C17_GetFallsBackAndFills ==
    /\ GetReadsThrough
    /\ op.name = "hybrid_get" /\ ~sync_enabled =>
            IF is_expired(op.before.primary, op.key, clock)
            THEN primary = delete(op.before.primary, op.key)
            ELSE primary = op.before.primary

\* A get served by the secondary under sync has filled the primary.
C17_Witness ==
    /\ ServedBySecondary
    /\ sync_enabled
    /\ get(primary, op.key, clock).value = op.value
    /\ primary # op.before.primary

\* The record of key in backend b holds value.
HoldsScalar(b, key, value) ==
    /\ get_file_path(key) \in DOMAIN b.files
    /\ b.files[get_file_path(key)] = ScalarFile(value)

\* C18: sync is off at construction; hybrid.set and hybrid.append_to_list
\* always write the primary, and leave the secondary unchanged unless sync
\* has been enabled, in which case they write it too.
C18_SecondaryWrittenOnlyUnderSync ==
    /\ ops = 0 => ~sync_enabled
    /\ op.name = "hybrid_set" =>
            /\ HoldsScalar(primary, op.key, op.value)
            /\ IF sync_enabled
               THEN HoldsScalar(secondary, op.key, op.value)
               ELSE secondary = op.before.secondary
    /\ op.name = "hybrid_append_to_list" =>
            /\ get_list(primary, op.key)
                    = Append(get_list(op.before.primary, op.key), op.value)
            /\ IF sync_enabled
               THEN get_list(secondary, op.key)
                        = Append(get_list(op.before.secondary, op.key), op.value)
               ELSE secondary = op.before.secondary

\* A set without sync has written the primary and not the secondary, which
\* holds other data.
C18_Witness ==
    /\ op.name = "hybrid_set"
    /\ ~sync_enabled
    /\ HoldsScalar(primary, op.key, op.value)
    /\ secondary # EmptyBackend
    /\ ~HoldsScalar(secondary, op.key, op.value)

\* C19: after migrate_to_secondary has completed into an empty secondary, the
\* primary is unchanged and every key it holds is in the secondary with the
\* same scalar value and the same list entries.
C19_MigrationCopiesEverything ==
    op.name = "migrate" /\ ~op.raised /\ op.before.secondary = EmptyBackend =>
        /\ primary = op.before.primary
        /\ \A key \in Keys :
              /\ get(primary, key, clock).value # Absent =>
                    get(secondary, key, clock).value = get(primary, key, clock).value
              /\ get_list(primary, key) # <<>> =>
                    get_list(secondary, key) = get_list(primary, key)

\* C20: a run of migrate_to_secondary that completes after an earlier run,
\* complete or not, the primary being unchanged in between, leaves the
\* secondary as one complete run would have left it.
C20_MigrationRerunnable ==
    op.name = "migrate" /\ ~op.raised /\ migrated.runs >= 2 =>
        secondary = migrated.reference


----------------------------------------------------------------------------
(***************************************************************************)
(* The Conversation Store under concurrent callers.  Each caller slot      *)
(* makes one call of update_conversation or close_conversation; a step of  *)
(* a call is the code up to and including the next storage call it awaits. *)
(***************************************************************************)

\* What a manager step leaves alone.
ManagerFrame ==
    UNCHANGED <<router_vars, now, ticks, routed, config_vars, call_vars, backend_vars,
                loop_vars, race_vars, trace_vars>>

\* The message a caller slot passes to update_conversation.
UpdateMessage(t) == Message(t + 1, "u1", "hello", FALSE, None, FALSE)

\* A caller starts update_conversation(conversation_id, message).
CallUpdate(t, conversation_id) ==
    /\ manager_calls[t].pc = "idle"
    /\ manager_calls' = [manager_calls EXCEPT ![t] =
            [IdleCall EXCEPT !.pc = "get", !.name = "update",
                             !.conversation_id = conversation_id,
                             !.message = UpdateMessage(t)]]
    /\ UNCHANGED <<store_vars, closed, fetched>>
    /\ ManagerFrame

\* A caller starts close_conversation(conversation_id).
CallClose(t, conversation_id) ==
    /\ manager_calls[t].pc = "idle"
    /\ manager_calls' = [manager_calls EXCEPT ![t] =
            [IdleCall EXCEPT !.pc = "get", !.name = "close",
                             !.conversation_id = conversation_id]]
    /\ UNCHANGED <<store_vars, closed, fetched>>
    /\ ManagerFrame

\* update_conversation: an absent context is stored as found, so the call
\* goes on to write it.
UpdateGetUnchecked(t) ==
    /\ manager_calls[t].name = "update"
    /\ manager_calls[t].pc = "get"
    /\ LET got == get_conversation(Store, manager_calls[t].conversation_id)
       IN  manager_calls' = [manager_calls EXCEPT
                ![t].pc = "save_context",
                ![t].context = [got.context EXCEPT
                                    !.conversation_id = manager_calls[t].conversation_id,
                                    !.updated_at = now]]
    /\ UNCHANGED <<store_vars, closed, fetched>>
    /\ ManagerFrame

\* update_conversation: context = await self.get_conversation(id); the call
\* raises ValueError when there is none, else sets context.updated_at.
UpdateGet(t) ==
    /\ manager_calls[t].name = "update"
    /\ manager_calls[t].pc = "get"
    /\ LET got == get_conversation(Store, manager_calls[t].conversation_id)
       IN  manager_calls' = [manager_calls EXCEPT ![t] =
                IF ~got.found THEN [@ EXCEPT !.pc = "raised"]
                ELSE [@ EXCEPT !.pc = "save_context",
                               !.context = [got.context EXCEPT !.updated_at = now]]]
    /\ UNCHANGED <<store_vars, closed, fetched>>
    /\ ManagerFrame

\* close_conversation: context = await self.get_conversation(id); the call
\* raises ValueError when there is none, else clears context.is_active.
CloseGet(t) ==
    /\ manager_calls[t].name = "close"
    /\ manager_calls[t].pc = "get"
    /\ LET got == get_conversation(Store, manager_calls[t].conversation_id)
       IN  manager_calls' = [manager_calls EXCEPT ![t] =
                IF ~got.found THEN [@ EXCEPT !.pc = "raised"]
                ELSE [@ EXCEPT !.pc = "save_context",
                               !.context = [got.context EXCEPT !.is_active = FALSE,
                                                               !.updated_at = now]]]
    /\ UNCHANGED <<store_vars, closed, fetched>>
    /\ ManagerFrame

\* await self._save_conversation_context(context), in either call
SaveContext(t) ==
    /\ manager_calls[t].pc = "save_context"
    /\ StoreBecomes(save_conversation_context(Store, manager_calls[t].context))
    /\ manager_calls' = [manager_calls EXCEPT ![t].pc =
            IF manager_calls[t].name = "update" THEN "save_message" ELSE "delete"]
    /\ UNCHANGED <<closed, fetched>>
    /\ ManagerFrame

\* update_conversation: await self._save_message(conversation_id, message)
UpdateSaveMessage(t) ==
    /\ manager_calls[t].pc = "save_message"
    /\ StoreBecomes(save_message(Store, manager_calls[t].conversation_id,
                                 manager_calls[t].message))
    /\ manager_calls' = [manager_calls EXCEPT ![t].pc = "last_activity"]
    /\ UNCHANGED <<closed, fetched>>
    /\ ManagerFrame

\* update_conversation: await self._update_last_activity(conversation_id)
UpdateLastActivity(t) ==
    /\ manager_calls[t].pc = "last_activity"
    /\ StoreBecomes(update_last_activity(Store, manager_calls[t].conversation_id, now))
    /\ manager_calls' = [manager_calls EXCEPT ![t].pc = "done"]
    /\ UNCHANGED <<closed, fetched>>
    /\ ManagerFrame

\* close_conversation: the loop over context.participant_ids, one delete of
\* active_conversations:<participant> a step; the call returns after the last.
CloseDelete(t) ==
    /\ manager_calls[t].pc = "delete"
    /\ LET participant_ids == manager_calls[t].context.participant_ids
           participant_id == participant_ids[manager_calls[t].participant]
           last == manager_calls[t].participant = Len(participant_ids)
       IN  /\ active_conversations' =
                [s \in DOMAIN active_conversations |->
                    IF s = participant_id THEN <<>> ELSE active_conversations[s]]
           /\ manager_calls' = [manager_calls EXCEPT
                ![t].participant = IF last THEN @ ELSE @ + 1,
                ![t].pc = IF last THEN "done" ELSE "delete"]
           /\ closed' = IF last THEN closed \cup {manager_calls[t].conversation_id}
                        ELSE closed
    /\ UNCHANGED <<contexts, history, last_activity, next_conv, fetched>>
    /\ ManagerFrame

\* A caller awaits get_conversation_history(conversation_id, limit).
GetHistory(conversation_id, limit) ==
    /\ fetched' = [called |-> TRUE, conversation_id |-> conversation_id,
                   limit |-> limit,
                   messages |-> get_conversation_history(Store, conversation_id, limit),
                   values |-> IF conversation_id \in DOMAIN history
                              THEN history[conversation_id] ELSE <<>>]
    /\ UNCHANGED <<store_vars, manager_calls, closed>>
    /\ ManagerFrame

\* The first message of a conversation.
FirstMessage == Message(1, "u1", "hello", FALSE, None, FALSE)

ManagerNext ==
    \/ CreateConversation(FirstMessage) /\ UNCHANGED other_vars
    \/ \E t \in ManagerTasks, c \in ConvIds : CallUpdate(t, c)
    \/ \E t \in ManagerTasks, c \in ConvIds : CallClose(t, c)
    \/ \E t \in ManagerTasks : UpdateGet(t)
    \/ \E t \in ManagerTasks : CloseGet(t)
    \/ \E t \in ManagerTasks : SaveContext(t)
    \/ \E t \in ManagerTasks : UpdateSaveMessage(t)
    \/ \E t \in ManagerTasks : UpdateLastActivity(t)
    \/ \E t \in ManagerTasks : CloseDelete(t)
    \/ \E c \in ConvIds, limit \in 0..MaxLimit : GetHistory(c, limit)

ManagerSpec == RouterInit /\ [][ManagerNext]_vars

\* C21: once close_conversation(c) has returned, the stored context of c has
\* is_active = false in every later state, whatever update_conversation and
\* close_conversation calls on c are in flight.
C21_ClosedStaysInactive ==
    \A c \in closed : c \in DOMAIN contexts /\ ~contexts[c].is_active

\* C22: update_conversation on an id with no stored context raises, and the
\* step that raises it leaves every record of the store as it was: no history
\* entry, no context and no last-activity record appear.
C22_UpdateAbsentRaises ==
    [][\A t \in ManagerTasks :
            /\ manager_calls[t].name = "update"
            /\ manager_calls[t].pc = "get"
            /\ manager_calls'[t].pc # "get"
            /\ manager_calls[t].conversation_id \notin DOMAIN contexts
            => /\ manager_calls'[t].pc = "raised"
               /\ UNCHANGED store_vars]_vars

\* An update_conversation call raised for an id that has no context, no
\* history and no last-activity record, while another conversation is stored.
C22_Witness ==
    \E t \in ManagerTasks :
        /\ manager_calls[t].name = "update"
        /\ manager_calls[t].pc = "raised"
        /\ manager_calls[t].conversation_id \notin
                DOMAIN contexts \cup DOMAIN history \cup DOMAIN last_activity
        /\ contexts # <<>>

\* C29: get_conversation_history(c, limit) returns the last min(limit, n)
\* entries of c's n-entry history in append order, never more than limit, and
\* the empty sequence when there is no history.
C29_HistoryLastLimit ==
    fetched.called =>
        LET n == Len(fetched.values)
            k == IF fetched.limit < n THEN fetched.limit ELSE n
        IN  /\ Len(fetched.messages) <= fetched.limit
            /\ fetched.messages = SubSeq(fetched.values, n - k + 1, n)


----------------------------------------------------------------------------
(***************************************************************************)
(* interceptor/message_interceptor.py: the background loop.  A caller      *)
(* creates a task for start_processing(); the task runs its first step     *)
(* when the event loop schedules it.  The loop gives up control in the     *)
(* bounded wait on the queue and in the intercept call it awaits.          *)
(***************************************************************************)

Loops == 1..MaxLoops

\* What a step of the loop model leaves alone.
LoopFrame ==
    UNCHANGED <<system_vars, backend_vars, manager_vars, race_vars, trace_vars>>

\* while self.processing: the loop goes on to its next wait or returns
WhileTest(flag) == IF flag THEN "waiting" ELSE "exited"

\* asyncio.create_task(interceptor.start_processing())
StartProcessing(l) ==
    /\ loops[l].pc = "idle"
    /\ \A k \in 1..(l - 1) : loops[k].pc # "idle"
    /\ loops' = [loops EXCEPT ![l].pc = "scheduled"]
    /\ last_call' = "start"
    /\ UNCHANGED <<processing, message_queue, queued, intercepted>>
    /\ LoopFrame

\* start_processing up to its first await: self.processing = True, the
\* while test, and the loop is waiting on the queue.
LoopBegin(l) ==
    /\ loops[l].pc = "scheduled"
    /\ processing' = TRUE
    /\ loops' = [loops EXCEPT ![l].pc = WhileTest(TRUE)]
    /\ UNCHANGED <<message_queue, last_call, queued, intercepted>>
    /\ LoopFrame

\* message = await asyncio.wait_for(self.message_queue.get(), timeout=1.0)
\* returns a message; the loop calls intercept(message).
Dequeue(l) ==
    /\ loops[l].pc = "waiting"
    /\ message_queue # <<>>
    /\ loops' = [loops EXCEPT ![l].pc = "intercepting", ![l].message = Head(message_queue)]
    /\ message_queue' = Tail(message_queue)
    /\ intercepted' = Append(intercepted, Head(message_queue))
    /\ UNCHANGED <<processing, last_call, queued>>
    /\ LoopFrame

\* The wait times out on an empty queue: except asyncio.TimeoutError:
\* continue, and the while test.
WaitTimeout(l) ==
    /\ loops[l].pc = "waiting"
    /\ message_queue = <<>>
    /\ loops' = [loops EXCEPT ![l].pc = WhileTest(processing)]
    /\ UNCHANGED <<processing, message_queue, last_call, queued, intercepted>>
    /\ LoopFrame

\* await self.intercept(message) returns, or raises an asyncio.TimeoutError
\* (except asyncio.TimeoutError: continue), or raises another Exception
\* (except Exception: logger.error); then the while test.
InterceptReturns(l) ==
    /\ loops[l].pc = "intercepting"
    /\ \E result \in {"returned", "timeout_error", "raised"} :
           loops' = [loops EXCEPT ![l].pc = WhileTest(processing),
                                  ![l].message = None,
                                  ![l].ended = result,
                                  ![l].logged = (result = "raised")]
    /\ UNCHANGED <<processing, message_queue, last_call, queued, intercepted>>
    /\ LoopFrame

\* stop_processing()
StopProcessing ==
    /\ \E l \in Loops : loops[l].pc # "idle"
    /\ processing' = FALSE
    /\ last_call' = "stop"
    /\ UNCHANGED <<message_queue, loops, queued, intercepted>>
    /\ LoopFrame

\* queue_message(message)
QueueMessage ==
    /\ queued < MaxQueued
    /\ queued' = queued + 1
    /\ message_queue' = Append(message_queue, queued + 1)
    /\ UNCHANGED <<processing, loops, last_call, intercepted>>
    /\ LoopFrame

\* The steps the event loop takes for a start_processing task.
LoopStep(l) ==
    \/ LoopBegin(l)
    \/ Dequeue(l)
    \/ WaitTimeout(l)
    \/ InterceptReturns(l)

LoopNext ==
    \/ \E l \in Loops : StartProcessing(l)
    \/ \E l \in Loops : LoopBegin(l)
    \/ \E l \in Loops : Dequeue(l)
    \/ \E l \in Loops : WaitTimeout(l)
    \/ \E l \in Loops : InterceptReturns(l)
    \/ StopProcessing
    \/ QueueMessage

LoopSpec == RouterInit /\ [][LoopNext]_vars

\* The event loop runs every task that is ready: a created task gets its
\* first step, a wait ends with a message or a timeout, and an intercept
\* call returns.
LoopFairSpec == LoopSpec /\ \A l \in Loops : WF_vars(LoopStep(l))

AllExited == \A l \in Loops : loops[l].pc \in {"idle", "exited"}

\* The number of start_processing tasks created so far.
Started == Cardinality({l \in Loops : loops[l].pc # "idle"})

\* C23: after stop_processing has been called on a pipeline whose one loop
\* was started, and as long as nobody starts a loop again, the loop eventually
\* exits, whether the stop call or the loop's first step is scheduled first.
C23_StopLeadsToExit ==
    (last_call = "stop" /\ Started = 1) ~> (AllExited \/ Started # 1)

\* C24: start_processing while a loop is running adds no second consumer: at
\* most one loop waits on the intake queue or has an intercept call in flight.
C24_SingleConsumer ==
    Cardinality({l \in Loops : loops[l].pc \in {"waiting", "intercepting"}}) <= 1


----------------------------------------------------------------------------
(***************************************************************************)
(* Several intercept calls in flight at once.  A call gives up control in  *)
(* the route call and in the create_conversation call it awaits; what the  *)
(* race is about is the order of these two steps across calls.             *)
(***************************************************************************)

Racers == 1..MaxRacers

\* What a step of a racing call leaves alone.
RaceFrame ==
    UNCHANGED <<router_vars, now, ticks, routed, config_vars, call_vars, backend_vars,
                manager_vars, loop_vars, trace_vars>>

\* A caller starts intercept(message) without awaiting the calls in flight.
RaceIntercept(t, content) ==
    /\ racers[t].pc = "idle"
    /\ racers' = [racers EXCEPT ![t] =
            [NotCalled EXCEPT !.pc = "route",
                              !.message = Message(t, "u1", content, FALSE, None, FALSE)]]
    /\ UNCHANGED store_vars
    /\ RaceFrame

\* routing_decision = await self.router.route(message), and the branch the
\* call takes on it; existing is what _find_active_conversation found.
RaceRoute(t) ==
    /\ racers[t].pc = "route"
    /\ LET decision == route(rules, racers[t].message, "none").decision
       IN  racers' = [racers EXCEPT
                ![t].routing_decision = decision,
                ![t].existing = find_active_conversation(racers[t].message.sender_id),
                ![t].conversation_id = decision.conversation_id,
                ![t].pc = IF ~decision.should_process THEN "ignored"
                          ELSE IF decision.create_new_conversation THEN "create"
                          ELSE "continue"]
    /\ UNCHANGED store_vars
    /\ RaceFrame

\* Variant: the decision is taken again under a lock held across the
\* creation, and a conversation created meanwhile is continued.
RaceCreateExclusive(t) ==
    /\ racers[t].pc = "create"
    /\ next_conv <= MaxConvs
    /\ LET existing == find_active_conversation(racers[t].message.sender_id)
       IN  IF existing # None
           THEN /\ racers' = [racers EXCEPT ![t].pc = "created",
                                            ![t].conversation_id = existing]
                /\ UNCHANGED store_vars
           ELSE /\ racers' = [racers EXCEPT ![t].pc = "created",
                                            ![t].conversation_id = next_conv]
                /\ StoreBecomes(create_conversation(Store, racers[t].message,
                                                    NoAgent, now, 0).store)
    /\ RaceFrame

\* conversation = await self.conversation_manager.create_conversation(message, ...)
RaceCreate(t) ==
    /\ racers[t].pc = "create"
    /\ next_conv <= MaxConvs
    /\ racers' = [racers EXCEPT ![t].pc = "created", ![t].conversation_id = next_conv]
    /\ StoreBecomes(create_conversation(Store, racers[t].message,
                                        racers[t].routing_decision.agent_id, now, 0).store)
    /\ RaceFrame

RaceNext ==
    \/ \E t \in Racers, content \in {"", "hello", "order 7"} : RaceIntercept(t, content)
    \/ \E t \in Racers : RaceRoute(t)
    \/ \E t \in Racers : RaceCreate(t)
    \/ Tick /\ UNCHANGED other_vars

RaceSpec == RouterInit /\ [][RaceNext]_vars

\* The calls that have created a conversation.
Creators == {t \in Racers : racers[t].pc = "created"}

\* C25: nothing serialises the continue-versus-create decision: every call
\* that was routed to create does create, so the sender's active list holds
\* one conversation per such call, each stored with is_active = true, also
\* when the calls were routed before any of them had created.
C25_EveryCreateDecisionCreates ==
    /\ Len(active_conversations["u1"]) = Cardinality(Creators)
    /\ \A t \in Creators :
            /\ racers[t].conversation_id \in Range(active_conversations["u1"])
            /\ contexts[racers[t].conversation_id].is_active
    /\ \A t, u \in Creators :
            racers[t].conversation_id = racers[u].conversation_id => t = u

\* Two calls of one sender, both routed when the sender had no conversation,
\* have both created: the sender has two active conversations.
C25_Witness ==
    /\ \A t \in {1, 2} : racers[t].pc = "created" /\ racers[t].existing = None
    /\ Len(active_conversations["u1"]) = 2
    /\ active_conversations["u1"][1] # active_conversations["u1"][2]
    /\ \A i \in {1, 2} : contexts[active_conversations["u1"][i]].is_active


----------------------------------------------------------------------------
(***************************************************************************)
(* The rule set after registrations, checked under RouterSpec.             *)
(***************************************************************************)

\* C26: rule names are unique in the router's rule list after any sequence
\* of registrations: a rule registered under a name already present has
\* replaced the earlier rule of that name.
C26_RuleNamesUnique ==
    \A i, j \in 1..Len(rules) : rules[i].name = rules[j].name => i = j


----------------------------------------------------------------------------
(***************************************************************************)
(* intercept and its processors.  A processor is named by the tag it puts  *)
(* on what it is given: a message or a response is the sequence of tags it *)
(* carries, so what a processor received and returned can be told apart.   *)
(* run.steps records the calls intercept makes, each with its argument.    *)
(***************************************************************************)

Tags == {"a", "b"}

\* processor(message): what the processor named p returns for x
Apply(p, x) == Append(x, p)

Event(step, processor, input) == [step |-> step, processor |-> processor, input |-> input]

\* What a step of this call leaves alone.
RunFrame ==
    UNCHANGED <<router_vars, store_vars, now, ticks, routed, default_agent, agents,
                call_vars, backend_vars, manager_vars, loop_vars, race_vars, trip>>

\* add_pre_processor(processor), between calls
RegisterPre(p) ==
    /\ run.pc = "idle"
    /\ Len(pre_processors) < MaxRegistered
    /\ pre_processors' = Append(pre_processors, p)
    /\ UNCHANGED <<post_processors, run>>
    /\ RunFrame

\* add_post_processor(processor), between calls
RegisterPost(p) ==
    /\ run.pc = "idle"
    /\ Len(post_processors) < MaxRegistered
    /\ post_processors' = Append(post_processors, p)
    /\ UNCHANGED <<pre_processors, run>>
    /\ RunFrame

\* A caller awaits intercept(message).
RunIntercept ==
    /\ run.pc = "idle"
    /\ run' = [run EXCEPT !.pc = "pre"]
    /\ UNCHANGED <<pre_processors, post_processors>>
    /\ RunFrame

\* Variant: every pre-processor is given the message intercept was called with.
RunPreProcessorOriginal ==
    /\ run.pc = "pre"
    /\ run.idx <= Len(pre_processors)
    /\ run' = [run EXCEPT
            !.message = Apply(pre_processors[run.idx], <<>>),
            !.idx = @ + 1,
            !.steps = Append(@, Event("pre", pre_processors[run.idx], <<>>))]
    /\ UNCHANGED <<pre_processors, post_processors>>
    /\ RunFrame

\* for processor in self._pre_processors: message = processor(message)
RunPreProcessor ==
    /\ run.pc = "pre"
    /\ run.idx <= Len(pre_processors)
    /\ run' = [run EXCEPT
            !.message = Apply(pre_processors[run.idx], run.message),
            !.idx = @ + 1,
            !.steps = Append(@, Event("pre", pre_processors[run.idx], run.message))]
    /\ UNCHANGED <<pre_processors, post_processors>>
    /\ RunFrame

\* message.status = QUEUED; routing_decision = await self.router.route(message);
\* a decision not to process ends the call with status IGNORED.
RunRoute(should_process) ==
    /\ run.pc = "pre"
    /\ run.idx > Len(pre_processors)
    /\ run' = [run EXCEPT
            !.pc = IF should_process THEN "resolve" ELSE "done",
            !.status = IF should_process THEN "QUEUED" ELSE "IGNORED",
            !.steps = Append(@, Event("route", "", run.message))]
    /\ UNCHANGED <<pre_processors, post_processors>>
    /\ RunFrame

\* The conversation is created or fetched and the agent selected; a missing
\* conversation or agent ends the call with status FAILED.
RunResolve(resolved) ==
    /\ run.pc = "resolve"
    /\ run' = [run EXCEPT
            !.pc = IF resolved THEN "process" ELSE "done",
            !.status = IF resolved THEN "PROCESSING" ELSE "FAILED"]
    /\ UNCHANGED <<pre_processors, post_processors>>
    /\ RunFrame

\* response = await agent.process_message(message, conversation)
RunProcess(responds) ==
    /\ run.pc = "process"
    /\ run' = [run EXCEPT
            !.pc = "update_message",
            !.responded = responds,
            !.steps = Append(@, Event("process", "", run.message))]
    /\ UNCHANGED <<pre_processors, post_processors>>
    /\ RunFrame

\* await self.conversation_manager.update_conversation(id, message)
RunUpdateMessage ==
    /\ run.pc = "update_message"
    /\ run' = [run EXCEPT
            !.pc = IF run.responded THEN "update_response" ELSE "processed",
            !.steps = Append(@, Event("update_message", "", run.message))]
    /\ UNCHANGED <<pre_processors, post_processors>>
    /\ RunFrame

\* if response: await self.conversation_manager.update_conversation(id, response)
RunUpdateResponse ==
    /\ run.pc = "update_response"
    /\ run' = [run EXCEPT
            !.pc = "processed",
            !.steps = Append(@, Event("update_response", "", run.response))]
    /\ UNCHANGED <<pre_processors, post_processors>>
    /\ RunFrame

\* message.status = MessageStatus.PROCESSED
RunSetProcessed ==
    /\ run.pc = "processed"
    /\ run' = [run EXCEPT
            !.pc = "post", !.idx = 1, !.status = "PROCESSED",
            !.steps = Append(@, Event("status", "", "PROCESSED"))]
    /\ UNCHANGED <<pre_processors, post_processors>>
    /\ RunFrame

\* if response: for processor in self._post_processors: response = processor(response)
RunPostProcessor ==
    /\ run.pc = "post"
    /\ run.responded
    /\ run.idx <= Len(post_processors)
    /\ run' = [run EXCEPT
            !.response = Apply(post_processors[run.idx], run.response),
            !.idx = @ + 1,
            !.steps = Append(@, Event("post", post_processors[run.idx], run.response))]
    /\ UNCHANGED <<pre_processors, post_processors>>
    /\ RunFrame

\* return response
RunReturn ==
    /\ run.pc = "post"
    /\ ~run.responded \/ run.idx > Len(post_processors)
    /\ run' = [run EXCEPT !.pc = "done"]
    /\ UNCHANGED <<pre_processors, post_processors>>
    /\ RunFrame

ProcessorNext ==
    \/ \E p \in Tags : RegisterPre(p)
    \/ \E p \in Tags : RegisterPost(p)
    \/ RunIntercept
    \/ RunPreProcessor
    \/ \E should_process \in BOOLEAN : RunRoute(should_process)
    \/ \E resolved \in BOOLEAN : RunResolve(resolved)
    \/ \E responds \in BOOLEAN : RunProcess(responds)
    \/ RunUpdateMessage
    \/ RunUpdateResponse
    \/ RunSetProcessed
    \/ RunPostProcessor
    \/ RunReturn

ProcessorSpec == RouterInit /\ [][ProcessorNext]_vars

\* The recorded calls of one kind, in the order they were made.
StepsOf(step) == SelectSeq(run.steps, LAMBDA e : e.step = step)

\* Some call of the kind was recorded before position i.
Earlier(step, i) == \E j \in 1..(i - 1) : run.steps[j].step = step

\* C27: the pre-processors run in registration order, each on what the one
\* before it returned, and all of them before route is called; the
\* post-processors run in registration order on the response, only when there
\* is a response and only after the message and the response have been
\* handed to update_conversation and the status has been set to PROCESSED.
C27_ProcessorOrder ==
    LET pre == StepsOf("pre")
        post == StepsOf("post")
    IN  /\ Len(pre) <= Len(pre_processors)
        /\ \A k \in 1..Len(pre) :
                /\ pre[k].processor = pre_processors[k]
                /\ pre[k].input = SubSeq(pre_processors, 1, k - 1)
        /\ \A i \in 1..Len(run.steps) :
                run.steps[i].step = "route" =>
                    /\ \A j \in 1..Len(run.steps) : run.steps[j].step = "pre" => j < i
                    /\ Len(pre) = Len(pre_processors)
                    /\ run.steps[i].input = pre_processors
        /\ Len(post) <= Len(post_processors)
        /\ \A k \in 1..Len(post) :
                /\ post[k].processor = post_processors[k]
                /\ post[k].input = SubSeq(post_processors, 1, k - 1)
        /\ \A i \in 1..Len(run.steps) :
                run.steps[i].step = "post" =>
                    /\ run.responded
                    /\ run.status = "PROCESSED"
                    /\ Earlier("update_message", i)
                    /\ Earlier("update_response", i)
                    /\ Earlier("status", i)
                    /\ Earlier("route", i)

\* A call with two different pre-processors and two different post-processors
\* has returned a response that all four have handled.
C27_Witness ==
    /\ run.pc = "done"
    /\ pre_processors = <<"b", "a">>
    /\ post_processors = <<"a", "b">>
    /\ run.message = <<"b", "a">>
    /\ run.responded
    /\ run.response = <<"a", "b">>


----------------------------------------------------------------------------
(***************************************************************************)
(* core/message.py and conversation/manager.py: serialization.  A datetime *)
(* is a record, its ISO text a sequence of tokens.  A Python value that    *)
(* JSON has no type of its own for is tagged with its Python type; strings,*)
(* booleans and None are written and read back by JSON as they are.        *)
(***************************************************************************)

Datetimes == [date : {"2024-01-01"}, time : {"00:00:00", "00:00:01"},
              microsecond : {"000000", "000005"}, tzinfo : {"naive", "+00:00"}]

\* datetime.isoformat(): the fraction is written only when it is not zero,
\* the offset only for an aware datetime.
isoformat(t) ==
    <<t.date, "T", t.time>>
        \o (IF t.microsecond # "000000" THEN <<".", t.microsecond>> ELSE <<>>)
        \o (IF t.tzinfo # "naive" THEN <<t.tzinfo>> ELSE <<>>)

\* datetime.fromisoformat(text)
fromisoformat(text) ==
    LET rest == SubSeq(text, 4, Len(text))
        fraction == Len(rest) >= 2 /\ rest[1] = "."
        zone == IF fraction THEN SubSeq(rest, 3, Len(rest)) ELSE rest
    IN  [date |-> text[1], time |-> text[3],
         microsecond |-> IF fraction THEN rest[2] ELSE "000000",
         tzinfo |-> IF zone # <<>> THEN zone[1] ELSE "naive"]

\* MessageType and MessageStatus: member.value and the lookup by value
EnumValue == [TEXT |-> "text", IMAGE |-> "image", SYSTEM |-> "system",
              RECEIVED |-> "received", PROCESSED |-> "processed", FAILED |-> "failed"]
EnumMember(value) == CHOOSE member \in DOMAIN EnumValue : EnumValue[member] = value

\* Python values of a metadata entry.
PyStr(v) == [py |-> "str", items |-> <<v>>]
PyList(items) == [py |-> "list", items |-> items]
PyTuple(items) == [py |-> "tuple", items |-> items]

\* json.dumps writes a list and a tuple as an array; json.loads reads an
\* array as a list.
json_dumps_value(v) ==
    [json |-> IF v.py = "str" THEN "string" ELSE "array", items |-> v.items]
json_loads_value(j) ==
    [py |-> IF j.json = "string" THEN "str" ELSE "list", items |-> j.items]

\* A dict of metadata is a sequence of entries.
json_dumps_dict(d) ==
    [i \in 1..Len(d) |-> [key |-> d[i].key, value |-> json_dumps_value(d[i].value)]]
json_loads_dict(j) ==
    [i \in 1..Len(j) |-> [key |-> j[i].key, value |-> json_loads_value(j[i].value)]]

\* data.get(key, default)
DictGet(data, key, default) == IF key \in DOMAIN data THEN data[key] ELSE default

\* Message.to_dict()
to_dict(m) ==
    [id |-> m.id, sender_id |-> m.sender_id, recipient_id |-> m.recipient_id,
     content |-> m.content, type |-> EnumValue[m.type],
     timestamp |-> isoformat(m.timestamp), metadata |-> m.metadata,
     status |-> EnumValue[m.status], conversation_id |-> m.conversation_id]

\* Message.from_dict(data); the defaults of a missing id and timestamp are a
\* fresh uuid and the time of the call.
from_dict(data) ==
    [id |-> DictGet(data, "id", "fresh"),
     sender_id |-> DictGet(data, "sender_id", ""),
     recipient_id |-> DictGet(data, "recipient_id", ""),
     content |-> DictGet(data, "content", ""),
     type |-> EnumMember(DictGet(data, "type", "text")),
     timestamp |-> fromisoformat(DictGet(data, "timestamp", <<"2024-01-01", "T", "00:00:00">>)),
     metadata |-> DictGet(data, "metadata", <<>>),
     status |-> EnumMember(DictGet(data, "status", "received")),
     conversation_id |-> DictGet(data, "conversation_id", "None")]

\* Variant: the dict leaves is_active out.
serialize_contextWithoutActive(c) ==
    [conversation_id |-> c.conversation_id,
     participant_ids |-> json_dumps_value(c.participant_ids),
     created_at |-> isoformat(c.created_at),
     updated_at |-> isoformat(c.updated_at),
     metadata |-> json_dumps_dict(c.metadata),
     agent_id |-> c.agent_id,
     agent_persona |-> c.agent_persona]

\* _serialize_context(context): json.dumps of the dict of the eight fields
serialize_context(c) ==
    [conversation_id |-> c.conversation_id,
     participant_ids |-> json_dumps_value(c.participant_ids),
     created_at |-> isoformat(c.created_at),
     updated_at |-> isoformat(c.updated_at),
     metadata |-> json_dumps_dict(c.metadata),
     is_active |-> c.is_active,
     agent_id |-> c.agent_id,
     agent_persona |-> c.agent_persona]

\* _deserialize_context(data): json.loads and the constructor call
deserialize_context(data) ==
    [conversation_id |-> data.conversation_id,
     participant_ids |-> json_loads_value(data.participant_ids),
     created_at |-> fromisoformat(data.created_at),
     updated_at |-> fromisoformat(data.updated_at),
     metadata |-> json_loads_dict(DictGet(data, "metadata", <<>>)),
     is_active |-> DictGet(data, "is_active", TRUE),
     agent_id |-> DictGet(data, "agent_id", "None"),
     agent_persona |-> DictGet(data, "agent_persona", "None")]

\* The key of a context: conversation:<id>:context
ContextKey(conversation_id) == <<"conversation", ":", conversation_id, ":", "context">>

\* _save_conversation_context(context) on an empty file backend, then
\* get_conversation(context.conversation_id)
save_and_get(c) ==
    LET key == ContextKey(c.conversation_id)
        stored == set(EmptyBackend, key, serialize_context(c), None, 0)
    IN  deserialize_context(get(stored, key, 0).value)

\* The metadata dicts of the model: empty, or one entry whose value is a
\* string, a list or a tuple.
Metadatas ==
    {<<>>} \cup {<<[key |-> "k", value |-> v]>> :
                    v \in {PyStr("x"), PyList(<<"x", "y">>), PyTuple(<<"x", "y">>)}}

MessageObjects ==
    [id : {"m1"}, sender_id : {"u1"}, recipient_id : {"", "bot"}, content : {"hello"},
     type : {"TEXT", "IMAGE"}, timestamp : Datetimes, metadata : Metadatas,
     status : {"RECEIVED", "FAILED"}, conversation_id : {"None", "c1"}]

ContextObjects ==
    [conversation_id : {"c1"}, participant_ids : {PyList(<<"u1", "bot">>)},
     created_at : {t \in Datetimes : t.time = "00:00:00"},
     updated_at : {t \in Datetimes : t.tzinfo = "naive"},
     metadata : Metadatas, is_active : BOOLEAN,
     agent_id : {"None", "a1"}, agent_persona : {"None"}]

\* What a serialization step leaves alone.
CodecFrame ==
    UNCHANGED <<system_vars, backend_vars, manager_vars, loop_vars, race_vars, run>>

\* A caller builds Message.from_dict(m.to_dict()).
RoundTripMessage(m) ==
    /\ trip' = [kind |-> "message", value |-> m, data |-> to_dict(m),
                back |-> from_dict(to_dict(m))]
    /\ CodecFrame

\* A caller saves a context and reads it back with get_conversation.
RoundTripContext(c) ==
    /\ trip' = [kind |-> "context", value |-> c, data |-> serialize_context(c),
                back |-> save_and_get(c)]
    /\ CodecFrame

CodecNext ==
    \/ \E m \in MessageObjects : RoundTripMessage(m)
    \/ \E c \in ContextObjects : RoundTripContext(c)

CodecSpec == RouterInit /\ [][CodecNext]_vars

\* Every value of the metadata is one JSON has a type for.
JsonNative(metadata) ==
    \A i \in 1..Len(metadata) : metadata[i].value.py \in {"str", "list"}

\* C28 as stated: Message.from_dict(m.to_dict()) equals m in all fields, and
\* a context saved and read back equals the context in all fields, for every
\* message and every context.
C28_RoundTripAnyMetadata ==
    trip.kind # "none" => trip.back = trip.value

\* C28: Message.from_dict(m.to_dict()) equals m in all fields; a context
\* saved and read back equals the context in all fields when its metadata
\* holds only values JSON has a type for.
C28_RoundTrip ==
    /\ trip.kind = "message" => trip.back = trip.value
    /\ trip.kind = "context" /\ JsonNative(trip.value.metadata) =>
            trip.back = trip.value

\* A closed context with a fractional timestamp, an aware timestamp and a
\* list in its metadata has been saved and read back.
C28_Witness ==
    /\ trip.kind = "context"
    /\ ~trip.value.is_active
    /\ trip.value.updated_at.microsecond # "000000"
    /\ trip.value.created_at.tzinfo # "naive"
    /\ trip.value.metadata # <<>>
    /\ trip.value.metadata[1].value.py = "list"
    /\ trip.back = trip.value


----------------------------------------------------------------------------
(***************************************************************************)
(* LocalFileStorage.append_to_list when the file system fails.  Reading    *)
(* the existing list file may raise (the file cannot be opened or its      *)
(* content does not parse); opening it for writing may raise, which leaves *)
(* the file as it was.                                                     *)
(***************************************************************************)

\* append_to_list(key, value): the backend afterwards and whether the call
\* raised.  The except clause of the read logs the error and goes on with
\* existing_list = []; the except clause of the write logs and re-raises.
append_to_list_io(b, key, value, read_error, write_error) ==
    LET file_path == get_list_file_path(key)
        existing_list == IF file_path \in DOMAIN b.files /\ ~read_error
                         THEN b.files[file_path].values
                         ELSE <<>>
    IN  IF write_error
        THEN [backend |-> b, raised |-> TRUE]
        ELSE [backend |-> [b EXCEPT !.files =
                              Put(@, file_path, ListFile(Append(existing_list, value)))],
              raised |-> FALSE]

\* await storage.append_to_list(key, value); a read can fail only when there
\* is a list file to read.
AppendToListIO(key, value, read_error, write_error) ==
    /\ lock = 0
    /\ read_error => get_list_file_path(key) \in DOMAIN primary.files
    /\ StorageCall([NoOp EXCEPT !.name = "append_to_list", !.key = key,
                                !.value = value, !.flag = read_error,
                                !.raised = append_to_list_io(primary, key, value,
                                               read_error, write_error).raised])
    /\ primary' = append_to_list_io(primary, key, value, read_error, write_error).backend
    /\ UNCHANGED <<system_vars, runtime_vars, secondary, sync_enabled, clock, lock,
                   tasks, last_write, migrated>>

ListNext ==
    \/ \E key \in Keys, value \in Values, read_error, write_error \in BOOLEAN :
            AppendToListIO(key, value, read_error, write_error)

ListSpec == RouterInit /\ [][ListNext]_vars

\* C30: an append_to_list that cannot read or parse the existing list record
\* raises and leaves the entries of the list in place; after every
\* append_to_list that returns, the list's previous content is a prefix of
\* its new content.
C30_AppendSurfacesReadFailure ==
    op.name = "append_to_list" =>
        LET previous == get_list(op.before.primary, op.key)
            current == get_list(primary, op.key)
        IN  /\ op.flag => op.raised /\ current = previous
            /\ ~op.raised =>
                    /\ Len(previous) <= Len(current)
                    /\ SubSeq(current, 1, Len(previous)) = previous


----------------------------------------------------------------------------
(***************************************************************************)
(* What an intercept call leaves in the Conversation Store, checked under  *)
(* Spec.                                                                   *)
(***************************************************************************)

\* The call has ended with the given status.
EndedWith(status) == pc = "done" /\ message.status = status

\* The number of entries of a history that record the message with this id.
EntriesOf(h, id) == Cardinality({i \in 1..Len(h) : h[i].id = id})

\* C31: after an intercept call that ends with status PROCESSED, the incoming
\* message is recorded exactly once in the history of its conversation,
\* followed by the response when there is one, whether the call created the
\* conversation or continued an existing one.
C31_MessageOnceInHistory ==
    EndedWith("PROCESSED") =>
        LET h == history[conversation.conversation_id]
            n == Len(h)
        IN  /\ EntriesOf(h, message.id) = 1
            /\ IF response # NoResponse
               THEN n >= 2 /\ h[n].id = response.id /\ h[n - 1].id = message.id
               ELSE n >= 1 /\ h[n].id = message.id


----------------------------------------------------------------------------
(***************************************************************************)
(* close_conversation and the other conversations of its participants,     *)
(* checked under ManagerSpec.                                              *)
(***************************************************************************)

\* list_active_conversations(participant_id): the ids of the contexts returned
list_active_conversations(st, participant_id) ==
    SelectSeq(st.active_conversations[participant_id],
              LAMBDA c : get_conversation(st, c).found
                         /\ get_conversation(st, c).context.is_active)

\* The stored conversations that no close_conversation call was made on.
NeverClosed ==
    {c \in DOMAIN contexts :
        \A t \in ManagerTasks :
            ~(manager_calls[t].name = "close" /\ manager_calls[t].conversation_id = c)}

\* C32: close_conversation(c) affects only c: every other active conversation
\* of c's participants is still returned by list_active_conversations and
\* the sender still has an existing conversation for route to continue.
C32_CloseLeavesOthers ==
    \A c \in NeverClosed :
        contexts[c].is_active =>
            /\ c \in Range(list_active_conversations(Store, "u1"))
            /\ find_active_conversation("u1") # None


----------------------------------------------------------------------------
(***************************************************************************)
(* intercept calls on a store in which conversations get closed between    *)
(* the calls.  No collaborator fails here.                                 *)
(***************************************************************************)

\* close_conversation(conversation_id) on a stored conversation: the store
\* afterwards.
close_conversation(st, conversation_id) ==
    LET got == get_conversation(st, conversation_id)
        context == [got.context EXCEPT !.is_active = FALSE]
        s1 == save_conversation_context(st, context)
    IN  [s1 EXCEPT !.active_conversations =
            [s \in DOMAIN @ |-> IF s \in Range(context.participant_ids)
                                THEN <<>> ELSE @[s]]]

\* A caller awaits close_conversation(c) between two intercept calls.
CloseConversation(c) ==
    /\ Between
    /\ c \in DOMAIN contexts
    /\ c \notin closed
    /\ StoreBecomes(close_conversation(Store, c))
    /\ closed' = closed \cup {c}
    /\ UNCHANGED <<router_vars, now, ticks, routed, config_vars, call_vars, backend_vars,
                   manager_calls, fetched, loop_vars, race_vars, trace_vars>>

ClosedNext ==
    \/ \E c \in ConvIds : CloseConversation(c)
    \/ \E m \in InterceptMessages(calls + 1) : Intercept(m) /\ UNCHANGED other_vars
    \/ SetQueued /\ UNCHANGED other_vars
    \/ Route("none") /\ UNCHANGED other_vars
    \/ Ignore /\ UNCHANGED other_vars
    \/ CreateBranch(0) /\ UNCHANGED other_vars
    \/ GetBranch(FALSE) /\ UNCHANGED other_vars
    \/ SetProcessing /\ UNCHANGED other_vars
    \/ SelectAgent /\ UNCHANGED other_vars
    \/ \E result \in {"response", "none"} : ProcessMessage(result) /\ UNCHANGED other_vars
    \/ UpdateWithMessage(0) /\ UNCHANGED other_vars
    \/ UpdateWithResponse(0) /\ UNCHANGED other_vars
    \/ SetProcessed /\ UNCHANGED other_vars
    \/ Return /\ UNCHANGED other_vars
    \/ Finish /\ UNCHANGED other_vars

ClosedSpec == Init /\ [][ClosedNext]_vars

\* C33: once a conversation has been closed, no later intercept call hands a
\* message to an agent for it, appends to its history or ends PROCESSED in
\* it, whether the message named it as its reply target or was continued by
\* default.
C33_ClosedNotProcessed ==
    conversation.conversation_id \in closed =>
        pc \notin {"agent", "update_message", "update_response", "processed", "post"}
        /\ ~EndedWith("PROCESSED")


----------------------------------------------------------------------------
(***************************************************************************)
(* The store after an intercept call that ends FAILED, checked under Spec. *)
(***************************************************************************)

\* The records of the store, without the source of fresh ids.
Records(st) == <<st.contexts, st.active_conversations, st.history, st.last_activity>>

\* The call has called neither create_conversation nor update_conversation.
WroteNothing == "create" \notin Range(store_ops) /\ "update" \notin Range(store_ops)

\* The call created a conversation and then failed for want of an agent or
\* because the agent raised.
FailedAfterCreate ==
    /\ EndedWith("FAILED")
    /\ store_ops = <<"create">>
    /\ fault_site \in {"none", "agent"}

\* C34 as stated: an intercept call that ends with status FAILED leaves the
\* Conversation Store as it was before the call.
C34_FailedLeavesStore ==
    EndedWith("FAILED") => Records(Store) = Records(store_before)

\* C34: an intercept call that ends with status FAILED without having called
\* create_conversation or update_conversation leaves the store as it was; a
\* call that created a conversation and then fails because no agent resolves
\* or the agent raises leaves the new conversation stored: its context, its
\* entry in the sender's active list and the message in its history.
C34_FailedKeepsWhatWasWritten ==
    /\ EndedWith("FAILED") /\ WroteNothing => Records(Store) = Records(store_before)
    /\ FailedAfterCreate =>
            LET c == conversation.conversation_id
            IN  /\ c \notin DOMAIN store_before.contexts
                /\ c \in DOMAIN contexts
                /\ c \in Range(active_conversations[message.sender_id])
                /\ c \in DOMAIN history
                /\ EntriesOf(history[c], message.id) = 1

\* A call has created a conversation, the agent has raised, and the call
\* has ended FAILED.
C34_Witness ==
    /\ FailedAfterCreate
    /\ fault_site = "agent"
    /\ outcome = "raised"
    /\ conversation.conversation_id \in DOMAIN contexts


----------------------------------------------------------------------------
(***************************************************************************)
(* The final statuses of an intercept call, checked under Spec.            *)
(***************************************************************************)

FinalStatuses == {"PROCESSED", "FAILED", "IGNORED"}

\* C35 as stated: within one intercept call a message that has the status
\* PROCESSED, FAILED or IGNORED keeps it until the call returns or raises.
C35_FinalStatusKept ==
    \A k \in 1..(Len(status_log) - 1) : status_log[k] \notin FinalStatuses

\* C35: within one intercept call FAILED and IGNORED are terminal, and
\* PROCESSED changes only once, to FAILED, when a post-processor faults after
\* the message and the response were persisted.
C35_FinalStatusKeptUnlessPostFault ==
    \A k \in 1..(Len(status_log) - 1) :
        status_log[k] \in FinalStatuses =>
            /\ status_log[k] = "PROCESSED"
            /\ status_log[k + 1] = "FAILED"
            /\ k + 1 = Len(status_log)
            /\ fault_site = "post_processor"
            /\ EntriesOf(history[conversation.conversation_id], response.id) = 1

\* A call has ended FAILED by a post-processor fault, after it had set
\* PROCESSED and persisted the message and the response.
C35_Witness ==
    /\ EndedWith("FAILED")
    /\ outcome = "raised"
    /\ fault_site = "post_processor"
    /\ \E k \in 1..(Len(status_log) - 1) : status_log[k] = "PROCESSED"
    /\ EntriesOf(history[conversation.conversation_id], response.id) = 1

----------------------------------------------------------------------------
(***************************************************************************)
(* The messages the background loop takes off the intake queue, checked    *)
(* under LoopSpec.                                                         *)
(***************************************************************************)

\* The messages of the queue_message calls so far, in the order of the calls.
Queued == [i \in 1..queued |-> i]

\* The loops that have an intercept call in flight.
Intercepting == {l \in Loops : loops[l].pc = "intercepting"}

----------------------------------------------------------------------------
(***************************************************************************)
(* Expiry through a HybridStorage: the callers' sets are recorded in       *)
(* last_write, and the owner of the secondary writes a key only before the *)
(* callers' first write on it.                                             *)
(***************************************************************************)

\* The secondary holds a value for key before any write through the hybrid.
SecondaryHeld(key, value) ==
    /\ last_write[key] = NoWrite
    /\ SecondarySet(key, value)

\* await hybrid.set(key, value, ttl), recorded as the last write on key
HybridSetRecorded(key, value, ttl) ==
    LET r == hybrid_set(primary, secondary, sync_enabled, key, value, ttl, clock) IN
    /\ StorageCall([NoOp EXCEPT !.name = "hybrid_set", !.key = key, !.value = value])
    /\ primary' = r.primary
    /\ secondary' = r.secondary
    /\ Wrote(key, "set", value, ttl)
    /\ migrated' = NotMigrated
    /\ UNCHANGED <<system_vars, runtime_vars, sync_enabled, clock, lock, tasks>>

\* await hybrid.exists(key)
HybridExists(key) ==
    LET r == hybrid_exists(primary, secondary, key, clock) IN
    /\ StorageCall([NoOp EXCEPT !.name = "hybrid_exists", !.key = key, !.flag = r.value])
    /\ primary' = r.primary
    /\ secondary' = r.secondary
    /\ migrated' = NotMigrated
    /\ UNCHANGED <<system_vars, runtime_vars, sync_enabled, clock, last_write, lock, tasks>>

\* The keys that share their file with no other key.
OwnFileKeys ==
    {key \in Keys : \A other \in Keys \ {key} : get_file_path(other) # get_file_path(key)}

ExpiryNext ==
    \/ EnableSync
    \/ \E key \in OwnFileKeys, value \in Values : SecondaryHeld(key, value)
    \/ \E key \in OwnFileKeys, value \in Values, ttl \in Ttls :
           HybridSetRecorded(key, value, ttl)
    \/ \E key \in OwnFileKeys : HybridGet(key)
    \/ \E key \in OwnFileKeys : HybridExists(key)
    \/ ClockTick

ExpirySpec == RouterInit /\ [][ExpiryNext]_vars

\* C38: a key whose last set through the hybrid store had a ttl is absent for
\* get and false for exists once the ttl has elapsed, with sync enabled or
\* not and whatever the secondary held before; and get returns no value that
\* a later set through the hybrid store has overwritten.
C38_HybridTtlExpiry ==
    \A key \in Keys :
        LastSet(key) =>
            LET value == hybrid_get(primary, secondary, sync_enabled, key, clock).value
                found == hybrid_exists(primary, secondary, key, clock).value
            IN  /\ last_write[key].ttl # None /\ clock > Expiry(key) =>
                       value = Absent /\ ~found
                /\ value \in {last_write[key].value, Absent}

----------------------------------------------------------------------------
(***************************************************************************)
(* Concurrent append_to_list calls through a HybridStorage whose primary   *)
(* is a LocalFileStorage and whose secondary is a RedisStorage, the pair   *)
(* the class is written for.  The primary's append runs without            *)
(* suspending (its lock is free and its file access is synchronous); the   *)
(* secondary's append suspends in connect and in rpush.                    *)
(***************************************************************************)

\* RedisStorage.append_to_list's effect at the server: RPUSH key value
rpush(b, key, value) ==
    [b EXCEPT !.files =
        Put(@, key, ListFile(Append(IF key \in DOMAIN @ THEN @[key].values ELSE <<>>,
                                    value)))]

\* RedisStorage.get_list(key): LRANGE key 0 -1
lrange(b, key) == IF key \in DOMAIN b.files THEN b.files[key].values ELSE <<>>

\* self.client of the RedisStorage is set by the first call that connects.
ClientSet == \E t \in Tasks : tasks[t].pc # "idle"

\* A caller starts hybrid.append_to_list(key, value) without awaiting the
\* others: primary.append_to_list, then secondary.append_to_list up to its
\* first await, which is connect's ping when self.client is not set and
\* rpush when it is.
HybridCallAppend(t, key, value) ==
    /\ sync_enabled
    /\ tasks[t].pc = "idle"
    /\ primary' = append_to_list(primary, key, value)
    /\ tasks' = [tasks EXCEPT ![t] = [pc |-> IF ClientSet THEN "rpush" ELSE "connecting",
                                      key |-> key, value |-> value,
                                      existing_list |-> <<>>]]
    /\ UNCHANGED <<system_vars, runtime_vars, secondary, sync_enabled, clock, op, ops,
                   last_write, lock, migrated>>

\* await self.connect() returns; the call goes on to its rpush.
ConnectReturns(t) ==
    /\ TaskStep(t, "connecting", "rpush")
    /\ UNCHANGED <<system_vars, runtime_vars, primary, secondary, sync_enabled, clock,
                   op, ops, last_write, lock, migrated>>

\* await self.client.rpush(key, json_value): the server appends and the
\* call returns.
Rpush(t) ==
    /\ TaskStep(t, "rpush", "done")
    /\ secondary' = rpush(secondary, tasks[t].key, tasks[t].value)
    /\ UNCHANGED <<system_vars, runtime_vars, primary, sync_enabled, clock, op, ops,
                   last_write, lock, migrated>>

SyncNext ==
    \/ EnableSync
    \/ \E t \in Tasks, key \in OwnFileKeys, value \in Values : HybridCallAppend(t, key, value)
    \/ \E t \in Tasks : ConnectReturns(t)
    \/ \E t \in Tasks : Rpush(t)

SyncSpec == RouterInit /\ [][SyncNext]_vars

\* C39: with sync enabled from the start, when the concurrent append_to_list
\* calls on a key through the hybrid store have all completed, the list of
\* the primary and the list of the secondary for that key are equal: the same
\* entries in the same order.
C39_ListsAgree ==
    AllCompleted =>
        \A key \in Keys : get_list(primary, key) = lrange(secondary, key)

----------------------------------------------------------------------------
(***************************************************************************)
(* The keys a file-backend call leaves alone, checked under FileSpec.      *)
(***************************************************************************)

\* What the callers can read of key in backend b at the present time.
Readable(b, key) ==
    [value |-> get(b, key, clock).value,
     values |-> get_list(b, key),
     found |-> exists(b, key, clock).value]

\* C40: a set, an append_to_list or a delete on one key leaves get, get_list
\* and exists of every other key as they were before the call.
C40_OtherKeysUntouched ==
    op.name \in {"set", "append_to_list", "delete"} =>
        \A other \in Keys \ {op.key} :
            Readable(primary, other) = Readable(op.before.primary, other)

====
